---- MODULE Spec2Model ----
(***************************************************************************)
(* Model of the evolutionary prompt pipeline: the evolution engine          *)
(* (ga/evolution.py), the fitness evaluator (metrics/fitness.py,            *)
(* metrics/diversity.py), the reporting helpers (ga/reporting.py) and the   *)
(* tail of main (main.py).                                                  *)
(*                                                                          *)
(* Numbers.  Fitness values are exact rationals written as integers in      *)
(* units of 1/ONE, ONE = 72000, so that every threshold, every penalty and  *)
(* every population mean of the bounded model is an integer.                *)
(* Strings.  "" is the empty string; NONE stands for Python's None.         *)
(* Texts are sequences of lower-case words (what text.lower().split()       *)
(* yields); << >> is the empty text.                                        *)
(***************************************************************************)
EXTENDS Integers, Sequences, FiniteSets, TLC

VARIABLES
    pc,                 \* position of main / run_evolution
    params,             \* arguments of run_evolution (fixed for a run)
    pop_size,           \* run_evolution: pop_size
    g,                  \* generation index of the for loop
    current_population, \* run_evolution: current_population
    fitness_history,    \* run_evolution: fitness_history
    is_stuck,           \* run_evolution: is_stuck
    new_population,     \* run_evolution: new_population (the elites)
    new_children,       \* run_evolution: new_children
    tasks,              \* the pipelines of the batch handed to asyncio.gather
    call,               \* last call of a function checked on its own
    metrics_log,        \* the file metrics_log.csv of the output directory
    individuals_to_generate \* main: positions in population_gen0 still without data

vars == <<pc, params, pop_size, g, current_population, fitness_history, is_stuck,
          new_population, new_children, tasks, call, metrics_log,
                   individuals_to_generate>>

engine_vars == <<pc, params, pop_size, g, current_population, fitness_history, is_stuck,
                 new_population, new_children, tasks, metrics_log,
                   individuals_to_generate>>

-----------------------------------------------------------------------------
(* Bounds of the model *)

MaxPop == 2
MaxGenerations == 3
MaxHistory == 4
MaxWindow == 3

-----------------------------------------------------------------------------
(* Values *)

ONE == 60 * 1200

NONE == "<None>"
\* None in the generated_data field, whose values are texts
NO_DATA == <<"<None>">>

Min(a, b) == IF a < b THEN a ELSE b
Max(a, b) == IF a > b THEN a ELSE b

\* program constants, ga/evolution.py
CHILD_BATCH_SIZE == 10
\* mutant: a window of two generations
STAGNATION_LIMIT_SHORT == 3 - 1
STAGNATION_LIMIT == 3

\* mutant: the whole excess over the threshold is taken off
StaticPenaltyWhole == ONE

\* mutant: twice the excess over the threshold is taken off
StaticPenaltyDouble == 2 * ONE

\* program constants, metrics/fitness.py
COHERENCE_UPPER_THRESHOLD == (8 * ONE) \div 10
STATIC_COHERENCE_PENALTY_FACTOR == (5 * ONE) \div 10
COMPRESSION_THRESHOLD == 2 * ONE
REPETITION_THRESHOLD == (5 * ONE) \div 10
DYNAMIC_DIVERSITY_PENALTY_FACTOR == ONE \div 10

\* default n-gram window of calculate_internal_repetition
N_MIN == 4
N_MAX == 6

-----------------------------------------------------------------------------
(* Sequence helpers *)

RECURSIVE SumSeq(_)
SumSeq(s) == IF s = << >> THEN 0 ELSE Head(s) + SumSeq(Tail(s))

RECURSIVE MaxSeq(_)
MaxSeq(s) == IF Len(s) = 1 THEN s[1] ELSE Max(s[1], MaxSeq(Tail(s)))

Range(s) == {s[i] : i \in DOMAIN s}

-----------------------------------------------------------------------------
(* Texts and the external scorers *)

\* Words of the generated texts; a text is what text.lower().split() yields.
TextPlain == <<"alpha", "beta">>
TextCopy  == <<"alpha", "beta", "gamma">>
TextLoop  == <<"la", "la", "la", "la", "la", "la", "la", "la">>
TextSpam  == <<"buy", "buy", "buy", "buy", "buy", "buy", "buy", "buy", "buy">>
TextZip   == <<"alpha", "beta", "gamma", "delta">>
EmptyText == << >>
\* texts at and around the two diversity thresholds
TextBoth  == <<"go", "go", "go", "go", "go", "go", "go", "go", "go">>
TextAbab  == <<"tic", "tac", "tic", "tac", "tic", "tac", "tic", "tac", "tic">>
TextHalf  == <<"la", "la", "la", "la", "la", "la">>
TextTwice == <<"alpha", "beta", "gamma", "delta", "epsilon">>

\* The texts the LLM service returns as generated_text in the engine runs.
DataTexts == {TextPlain, TextLoop}

\* mutant: the value of generated_data is used as it is, None included
TextOfUnguarded(data) == data

\* individual['generated_data'] or ""
TextOf(data) == IF data = NO_DATA THEN EmptyText ELSE data

\* bert_score F1 of a candidate against the reference text (external model,
\* deterministic): a fixed table.
BertF1(text) ==
    CASE text = TextPlain -> (50 * ONE) \div 100
      [] text = TextCopy  -> (95 * ONE) \div 100
      [] text = TextLoop  -> (60 * ONE) \div 100
      [] text = TextSpam  -> (5 * ONE) \div 100
      [] text = TextZip   -> (70 * ONE) \div 100
      [] OTHER            -> 0

\* len(text.encode('utf-8')) and len(zlib.compress(...)) (external): tables.
OriginalSize(text) ==
    CASE text = TextZip   -> 90
      [] text = TextBoth  -> 90
      [] text = TextTwice -> 60
      [] OTHER            -> 3 * Len(text)
CompressedSize(text) ==
    CASE text = TextZip   -> 30
      [] text = TextBoth  -> 30
      [] text = TextTwice -> 30
      [] OTHER            -> 8 + 2 * Len(text)

\* str.lower() on one word
LowerCase(word) ==
    CASE word = "La"  -> "la"
      [] word = "LA"  -> "la"
      [] OTHER        -> word

-----------------------------------------------------------------------------
(* metrics/diversity.py *)

calculate_compression_ratio(text) ==
    IF text = EmptyText THEN ONE
    ELSE IF OriginalSize(text) = 0 THEN ONE
    ELSE IF CompressedSize(text) = 0 THEN ONE
    ELSE (OriginalSize(text) * ONE) \div CompressedSize(text)

\* mutant: range(len(words) - n) leaves the last n-gram out
NGramsMissingLast(words, n) ==
    IF Len(words) <= n THEN << >>
    ELSE [i \in 1..(Len(words) - n) |-> SubSeq(words, i, i + n - 1)]

\* the n-grams of one n, in order of position
NGrams(words, n) ==
    IF Len(words) < n THEN << >>
    ELSE [i \in 1..(Len(words) - n + 1) |-> SubSeq(words, i, i + n - 1)]

RECURSIVE AllNGrams(_, _, _)
AllNGrams(words, n, n_max) ==
    IF n > n_max THEN << >>
    ELSE NGrams(words, n) \o AllNGrams(words, n + 1, n_max)

calculate_internal_repetition(text, n_min, n_max) ==
    LET words == [i \in DOMAIN text |-> LowerCase(text[i])]
        all_ngrams == AllNGrams(words, n_min, n_max)
        total_ngrams == Len(all_ngrams)
        unique_ngrams == Cardinality(Range(all_ngrams))
    IN  IF all_ngrams = << >> THEN 0
        ELSE ((total_ngrams - unique_ngrams) * ONE) \div total_ngrams

-----------------------------------------------------------------------------
(* ga/genome.py *)

Individual(role, topic, prompt, generated_data, fitness) ==
    [role |-> role, topic |-> topic, prompt |-> prompt,
     generated_data |-> generated_data, fitness |-> fitness]

-----------------------------------------------------------------------------
(* metrics/fitness.py *)

\* mutant: the two thresholds are inclusive
IsLowDiversityInclusive(text) ==
    \/ calculate_compression_ratio(text) >= COMPRESSION_THRESHOLD
    \/ calculate_internal_repetition(text, N_MIN, N_MAX) >= REPETITION_THRESHOLD

is_low_diversity(text) ==
    \/ calculate_compression_ratio(text) > COMPRESSION_THRESHOLD
    \/ calculate_internal_repetition(text, N_MIN, N_MAX) > REPETITION_THRESHOLD

\* mutant: the final clamp of line 61 is left out
ApplyPenaltiesUnclamped(individual, generation, max_generations) ==
    LET base_coherence == individual.fitness
        static_penalty ==
            IF base_coherence > COHERENCE_UPPER_THRESHOLD
            THEN ((base_coherence - COHERENCE_UPPER_THRESHOLD)
                     * STATIC_COHERENCE_PENALTY_FACTOR) \div ONE
            ELSE 0
        dynamic_penalty ==
            IF is_low_diversity(TextOf(individual.generated_data))
            THEN (DYNAMIC_DIVERSITY_PENALTY_FACTOR * generation) \div max_generations
            ELSE 0
    IN  [individual EXCEPT !.fitness = base_coherence - static_penalty - dynamic_penalty]

_apply_penalties(individual, generation, max_generations) ==
    LET base_coherence == individual.fitness
        text == TextOf(individual.generated_data)
        static_penalty ==
            IF base_coherence > COHERENCE_UPPER_THRESHOLD
            THEN ((base_coherence - COHERENCE_UPPER_THRESHOLD)
                     * STATIC_COHERENCE_PENALTY_FACTOR) \div ONE
            ELSE 0
        dynamic_penalty ==
            IF is_low_diversity(text)
            THEN (DYNAMIC_DIVERSITY_PENALTY_FACTOR * generation) \div max_generations
            ELSE 0
        total_penalty == static_penalty + dynamic_penalty
    IN  [individual EXCEPT !.fitness = Max(0, base_coherence - total_penalty)]

\* line 56: generation / max_generations raises ZeroDivisionError when
\* max_generations is 0; the line is reached for a low-diversity text only
ApplyPenaltiesRaises(individual, generation, max_generations) ==
    /\ is_low_diversity(TextOf(individual.generated_data))
    /\ max_generations = 0

\* evaluate_population_fitness raises: some call of line 100 does
EvaluationRaises(population, generation, max_generations) ==
    \E i \in DOMAIN population :
        ApplyPenaltiesRaises(population[i], generation, max_generations)

\* the population, evaluated in place, when line 100 raises: every
\* individual has its score (lines 94-95) and those before the first call
\* that raises have their penalties
EvaluationInterrupted(population, f1_scores, generation, max_generations) ==
    LET first == CHOOSE i \in DOMAIN population :
                     /\ ApplyPenaltiesRaises(population[i], generation, max_generations)
                     /\ \A j \in 1..(i - 1) :
                            ~ApplyPenaltiesRaises(population[j], generation,
                                                  max_generations)
    IN  [i \in DOMAIN population |->
            IF i < first
            THEN _apply_penalties([population[i] EXCEPT !.fitness = f1_scores[i]],
                                  generation, max_generations)
            ELSE [population[i] EXCEPT !.fitness = f1_scores[i]]]

\* mutant: lines 94-95 are left out, the penalties are applied to the
\* fitness the individuals carry
EvaluateOnCarriedFitness(population, f1_scores, generation, max_generations) ==
    [i \in DOMAIN population |->
        _apply_penalties(population[i], generation, max_generations)]

\* mutant: the individuals without generated data are left out of the result
EvaluateSkippingNoData(population, f1_scores, generation, max_generations) ==
    LET scored == [i \in DOMAIN population |->
                      [population[i] EXCEPT !.fitness = f1_scores[i]]]
        evaluated == [i \in DOMAIN population |->
                         _apply_penalties(scored[i], generation, max_generations)]
    IN  SelectSeq(evaluated, LAMBDA ind : ind.generated_data # NO_DATA)

\* f1_scores is what bert_score returns for the candidates, in order; it is
\* not asked for an empty candidate list.
evaluate_population_fitness(population, f1_scores, generation, max_generations) ==
    LET scored == [i \in DOMAIN population |->
                      [population[i] EXCEPT !.fitness = f1_scores[i]]]
    IN  [i \in DOMAIN population |->
            _apply_penalties(scored[i], generation, max_generations)]

\* line 79: the candidate texts handed to bert_score
Candidates(population) ==
    [i \in DOMAIN population |-> TextOf(population[i].generated_data)]

\* mutant: bert_score is called whatever the candidate list holds
ScorerInvokedAlways(population) == TRUE

\* line 82: bert_score is called only for a non-empty candidate list
ScorerInvoked(population) == Candidates(population) # << >>

\* the scores of the deterministic scorer of the engine runs
F1Scores(population) ==
    [i \in DOMAIN population |-> BertF1(TextOf(population[i].generated_data))]

-----------------------------------------------------------------------------
(* ga/reporting.py *)

\* statistics.mean is exact; the bounded model keeps every mean an integer
mean_fitness(population) ==
    IF population = << >> THEN 0
    ELSE SumSeq([i \in DOMAIN population |-> population[i].fitness])
             \div Len(population)

RECURSIVE MinSeq(_)
MinSeq(s) == IF Len(s) = 1 THEN s[1] ELSE Min(s[1], MinSeq(Tail(s)))

\* the integer square root, by bisection between lo and hi
RECURSIVE ISqrtBetween(_, _, _)
ISqrtBetween(x, lo, hi) ==
    IF lo >= hi THEN lo
    ELSE LET mid == (lo + hi + 1) \div 2
         IN  IF mid * mid <= x THEN ISqrtBetween(x, mid, hi)
             ELSE ISqrtBetween(x, lo, mid - 1)

ISqrt(x) == ISqrtBetween(x, 0, Min(x, 46340))

Abs(x) == IF x < 0 THEN -x ELSE x

\* statistics.pstdev: sqrt(sum((x - mean)^2) / n); for two values that is
\* |a - b| / 2, computed so, the squares of two distant scores being wider
\* than 32-bit integers
pstdev(scores) ==
    LET n == Len(scores)
        mean == SumSeq(scores) \div n
        squares == SumSeq([i \in DOMAIN scores |->
                              (scores[i] - mean) * (scores[i] - mean)])
    IN  IF n = 2 THEN Abs(scores[1] - scores[2]) \div 2
        ELSE ISqrt(squares \div n)

\* get_fitness_stats, lines 6-20
get_fitness_stats(population) ==
    LET fitness_scores == [i \in DOMAIN population |-> population[i].fitness]
    IN  IF fitness_scores = << >>
        THEN [count |-> 0, mean |-> 0, std |-> 0, min |-> 0, max |-> 0]
        ELSE [count |-> Len(fitness_scores),
              mean |-> mean_fitness(population),
              std |-> IF Len(fitness_scores) > 1 THEN pstdev(fitness_scores) ELSE 0,
              min |-> MinSeq(fitness_scores),
              max |-> MaxSeq(fitness_scores)]

-----------------------------------------------------------------------------
(* utils/saving.py: the metrics log.  A file is whether it exists and its   *)
(* rows, each the header or a data row with its cells; a number cell holds   *)
(* what f"{x:.6f}" prints, in millionths.                                    *)

FreshDirectory == [exists |-> FALSE, rows |-> << >>]

CSV_HEADER == <<"generation", "count", "mean_fitness", "std_fitness",
                "min_fitness", "max_fitness", "duration_sec">>

\* f"{x:.6f}": x rounded to six decimals, in millionths
Format6(x) == (250 * x + 9) \div 18

\* the wall-clock duration of the row, which no run fixes
DURATION == "<duration_sec>"

\* lines 32-36: the header row
HeaderRow == [kind |-> "header", cells |-> CSV_HEADER]

\* lines 39-44: the data row
MetricsRow(generation, stats) ==
    [kind |-> "data",
     cells |-> <<generation, stats.count, Format6(stats.mean), Format6(stats.std),
                 Format6(stats.min), Format6(stats.max), DURATION>>]

\* mutant: the header is written by every call
AppendMetricsHeaderAlways(file, generation, stats) ==
    [exists |-> TRUE,
     rows |-> file.rows \o <<HeaderRow>> \o <<MetricsRow(generation, stats)>>]

\* append_metrics_to_csv, lines 16-44
append_metrics_to_csv(file, generation, stats) ==
    [exists |-> TRUE,
     rows |-> file.rows
                 \o (IF ~file.exists THEN <<HeaderRow>> ELSE << >>)
                 \o <<MetricsRow(generation, stats)>>]

-----------------------------------------------------------------------------

\* mutant: line 40 compares with > instead of >=
CheckStagnationStrict(history, stagnation_limit) ==
    IF Len(history) < stagnation_limit THEN FALSE
    ELSE LET relevant_history ==
                 SubSeq(history, Len(history) - stagnation_limit + 1, Len(history))
         IN  relevant_history[1] > MaxSeq(Tail(relevant_history))

check_stagnation(history, stagnation_limit) ==
    IF Len(history) < stagnation_limit THEN FALSE
    ELSE LET relevant_history ==
                 SubSeq(history, Len(history) - stagnation_limit + 1, Len(history))
         IN  relevant_history[1] >= MaxSeq(Tail(relevant_history))

-----------------------------------------------------------------------------
(* ga/evolution.py: selection *)

\* list.sort(key=fitness, reverse=True): stable, descending
RECURSIVE InsertDesc(_, _)
InsertDesc(sorted, ind) ==
    IF sorted = << >> THEN <<ind>>
    ELSE IF Head(sorted).fitness >= ind.fitness
         THEN <<Head(sorted)>> \o InsertDesc(Tail(sorted), ind)
         ELSE <<ind>> \o sorted

\* mutant: the sort of line 120 is left out
SortLeftOut(population) == population

RECURSIVE SortDesc(_)
SortDesc(population) ==
    IF population = << >> THEN << >>
    ELSE InsertDesc(SortDesc(SubSeq(population, 1, Len(population) - 1)),
                    population[Len(population)])

\* random.sample(range(n), k): the k distinct positions, in the order drawn
Samples(n, k) ==
    {s \in [1..k -> 1..n] : \A i, j \in 1..k : i # j => s[i] # s[j]}

\* mutant: a sample as large as the population is refused as well
SampleRaisesAtEqual(population, k) == k >= Len(population) \/ k < 0

\* line 26: random.sample(population, k) raises ValueError when the sample
\* is larger than the population or negative
SampleRaises(population, k) == k > Len(population) \/ k < 0

\* max(candidates, key=fitness): the first candidate of maximal fitness
RECURSIVE FirstMax(_, _)
FirstMax(fitnesses, candidates) ==
    IF Len(candidates) = 1 THEN candidates[1]
    ELSE LET rest == FirstMax(fitnesses, Tail(candidates))
         IN  IF fitnesses[candidates[1]] >= fitnesses[rest]
             THEN candidates[1] ELSE rest

\* mutant: the first candidate drawn is returned, max() is left out
TournamentFirstCandidate(fitnesses, candidates) == candidates[1]

\* tournament_selection(population, k) for one sample: the position chosen
tournament_selection(fitnesses, candidates) == FirstMax(fitnesses, candidates)

FitnessesOf(population) == [i \in DOMAIN population |-> population[i].fitness]

\* the positions a tournament of size k can return
Winners(population, k) ==
    {tournament_selection(FitnessesOf(population), s) :
        s \in Samples(Len(population), k)}

-----------------------------------------------------------------------------
(* ga/evolution.py: the child pipeline, one record per coroutine *)

\* random.random() is in [0, 1): the draws of the model, in percent
RandomDraws == {0, 50}
\* --prob_crossover and --prob_mutation, as percentages: with both at 0 no
\* operator is ever applied, with both at 50 the draws of RandomDraws take
\* each of the four combinations of branches of a pipeline, with
\* prob_crossover at 100 every pipeline takes the crossover branch
ProbabilityPairs == {<<0, 0>>, <<50, 50>>, <<100, 0>>}

\* what the LLM service answers, after the agents' isinstance checks and
\* strip(): NONE / NO_DATA is a failed or invalid call
MutationResponses == {NONE, "", "mutated"}
PromptResponses == {NONE, "", "prompt1"}
DataResponses == {NO_DATA, EmptyText} \cup DataTexts

Truthy(str) == str # NONE /\ str # ""

\* a coroutine _process_child_pipeline(p1, p2, ..., is_stuck) not yet started;
\* p1 and p2 are positions in current_population.  The parents are read in
\* the first slice of the coroutine only (lines 49 and 53): the record drops
\* them (0) once that slice has run.  calls lists the agents the coroutine
\* has had an answer of the LLM service from (lines 62, 69) while it goes
\* on; the record drops the list when the coroutine returns.
NewTask(p1, p2, stuck) ==
    [stage |-> "start", p1 |-> p1, p2 |-> p2, is_stuck |-> stuck,
     branch |-> NONE, new_role |-> NONE, new_topic |-> NONE,
     attribute_to_mutate |-> NONE, system_prompt |-> NONE,
     child |-> << >>, calls |-> << >>]

\* return None (also from the except clause), and return child
Failed(task) ==
    [task EXCEPT !.stage = "done", !.p1 = 0, !.p2 = 0,
                 !.new_role = NONE, !.new_topic = NONE,
                 !.attribute_to_mutate = NONE, !.system_prompt = NONE,
                 !.child = << >>, !.calls = << >>]
Returned(task, child) ==
    [Failed(task) EXCEPT !.child = <<child>>]

\* mutant: the except clause is left out, the exception leaves the coroutine
ExceptionPropagates(task) ==
    [task EXCEPT !.stage = "raised", !.p1 = 0, !.p2 = 0,
                 !.new_role = NONE, !.new_topic = NONE,
                 !.attribute_to_mutate = NONE, !.system_prompt = NONE,
                 !.child = << >>, !.calls = << >>]

\* lines 90-91: except Exception: return None
OnException(task) == Failed(task)

\* evolution.py:49 calls semantic_crossover(parent1, parent2, llm_agent);
\* crossover_agent.py:71-77 requires (parent1, parent2, reference_text,
\* llm_agent): Python raises TypeError at the call, before any LLM request.
CROSSOVER_ARGUMENTS_PASSED == 3
CROSSOVER_ARGUMENTS_REQUIRED == 4
CrossoverCallRaises == CROSSOVER_ARGUMENTS_PASSED < CROSSOVER_ARGUMENTS_REQUIRED

\* mutation_agent.py:91-100: random.random() < 0.5 picks the role
AttributeToMutate(r_attr) == IF r_attr < 50 THEN "role" ELSE "topic"

\* mutant: the two system prompts of mutation_agent.py:103-106 are swapped
AfterStep1SwappedModes(task, role, topic, r, r_attr) ==
    IF ~(Truthy(role) /\ Truthy(topic)) THEN Failed(task)
    ELSE IF r < params.prob_mutation
    THEN [task EXCEPT !.stage = "mutation", !.p1 = 0, !.p2 = 0,
                      !.new_role = role, !.new_topic = topic,
                      !.attribute_to_mutate = AttributeToMutate(r_attr),
                      !.system_prompt = IF task.is_stuck THEN "refine" ELSE "explore"]
    ELSE [task EXCEPT !.stage = "regenerate", !.p1 = 0, !.p2 = 0,
                      !.new_role = role, !.new_topic = topic]

\* lines 58-69 after the genome of step 1 is known: mutate or go on to
\* regenerate_prompt; r is the draw of random.random() < prob_mutation and
\* r_attr the draw of semantic_mutation's random.random() < 0.5
AfterStep1(task, role, topic, r, r_attr) ==
    IF ~(Truthy(role) /\ Truthy(topic)) THEN Failed(task)
    ELSE IF r < params.prob_mutation
    THEN [task EXCEPT !.stage = "mutation", !.p1 = 0, !.p2 = 0,
                      !.new_role = role, !.new_topic = topic,
                      !.attribute_to_mutate = AttributeToMutate(r_attr),
                      !.system_prompt = IF task.is_stuck THEN "explore" ELSE "refine"]
    ELSE [task EXCEPT !.stage = "regenerate", !.p1 = 0, !.p2 = 0,
                      !.new_role = role, !.new_topic = topic]

\* mutant: the copy branch reproduces parent 2
ReproducedParentSecond(task) == task.p2

\* line 53: the copy branch reproduces parent 1
ReproducedParent(task) == task.p1

\* lines 43-56: the first slice of the coroutine, up to its first await
PipelineStep1(task, r_cross, r_mut, r_attr) ==
    IF r_cross < params.prob_crossover
    THEN \* semantic_crossover(parent1, parent2, llm_agent)
         IF CrossoverCallRaises
         THEN OnException([task EXCEPT !.branch = "crossover"])
         ELSE [task EXCEPT !.branch = "crossover", !.stage = "crossover"]
    ELSE AfterStep1([task EXCEPT !.branch = "copy"],
                    current_population[ReproducedParent(task)].role,
                    current_population[ReproducedParent(task)].topic, r_mut, r_attr)

\* mutant: the answer of the service replaces both attributes
MutationResultBoth(task, response) ==
    IF response = NONE THEN NONE ELSE <<response, response>>

\* semantic_mutation lines 117-133 and evolution.py lines 63-66
MutationResult(task, response) ==
    IF response = NONE THEN NONE
    ELSE IF task.attribute_to_mutate = "role"
         THEN <<response, task.new_topic>>
         ELSE <<task.new_role, response>>

\* semantic_mutation(individual, reference_text, llm_agent, is_stuck) for the
\* draw r_attr and the answer of the service (NONE: the call failed)
semantic_mutation(individual, stuck, r_attr, response) ==
    MutationResult([attribute_to_mutate |-> AttributeToMutate(r_attr),
                    new_role |-> individual.role,
                    new_topic |-> individual.topic,
                    is_stuck |-> stuck], response)

PipelineAfterMutation(task, response) ==
    LET result == MutationResult(task, response)
        role == IF result # NONE THEN result[1] ELSE task.new_role
        topic == IF result # NONE THEN result[2] ELSE task.new_topic
    IN  IF ~(Truthy(role) /\ Truthy(topic)) THEN Failed(task)
        ELSE [task EXCEPT !.stage = "regenerate", !.new_role = role,
                          !.new_topic = topic, !.attribute_to_mutate = NONE,
                          !.system_prompt = NONE,
                          !.calls = Append(@, "mutation")]

\* lines 69-80
PipelineAfterRegenerate(task, new_prompt) ==
    IF ~Truthy(new_prompt) THEN Failed(task)
    ELSE [task EXCEPT !.stage = "generate",
                      !.child = <<Individual(task.new_role, task.new_topic,
                                             new_prompt, NO_DATA, 0)>>,
                      !.calls = Append(@, "regenerate")]

\* lines 83-88
PipelineAfterGenerate(task, new_data) ==
    IF new_data = NO_DATA \/ new_data = EmptyText THEN Failed(task)
    ELSE Returned(task, [task.child[1] EXCEPT !.generated_data = new_data])

-----------------------------------------------------------------------------
(* ga/evolution.py: run_evolution, and the calls of main around it *)

\* list[:n] for n >= 0
Slice(list, n) == SubSeq(list, 1, Min(n, Len(list)))

\* mutant: the elites are not counted, pop_size children are asked for
ChildrenToCreateIgnoringElites == pop_size

\* line 133
children_to_create == pop_size - params.elite_size

\* mutant: one attempt more than needed is launched
BatchSizeOneMore(n_needed) == Min(n_needed + 1, CHILD_BATCH_SIZE)

\* line 138
BatchSize(n_needed) == Min(n_needed, CHILD_BATCH_SIZE)

\* mutant: the tournaments also see the children collected so far
ParentPoolWithChildren == current_population \o new_children

\* lines 143-144: both tournaments draw from current_population
ParentPool == current_population

\* mutant: the history is overwritten with the latest mean
HistoryOverwritten(history, population) == <<mean_fitness(population)>>

\* lines 174-175: fitness_history.append(stats['mean'])
HistoryAfterGeneration(history, population) ==
    Append(history, mean_fitness(population))

\* mutant: the slice is taken from the tail of the sorted population
ElitesFromTail(sorted_population) ==
    LET e == Min(params.elite_size, Len(sorted_population))
    IN  SubSeq(sorted_population, Len(sorted_population) - e + 1,
               Len(sorted_population))

\* line 129
Elites(sorted_population) == Slice(sorted_population, params.elite_size)

\* mutant: the final consolidated evaluation is left out
FinalNotEvaluated(population) == population

\* main.py:143-150: evaluate_population_fitness(final_population, ...,
\* generation=args.generations, max_generations=args.generations)
FinalEvaluated(population) ==
    evaluate_population_fitness(population, F1Scores(population),
                                params.generations, params.generations)

\* population_gen0 as main hands it to the gen-0 evaluation: roles are
\* non-empty (initial_population.py:30), topic and prompt are whatever the
\* service answered, generated_data is non-empty (main.py:91-94)
InitialRoles == {"role0"}
InitialTopics == {"topic0", ""}
InitialPrompts == {"prompt0"}
InitialIndividuals ==
    {Individual(r, t, p, d, 0) :
        r \in InitialRoles, t \in InitialTopics, p \in InitialPrompts, d \in DataTexts}

ParameterSets(n) ==
    {[generations |-> generations, k_tournament |-> k_tournament,
      prob_crossover |-> probs[1], prob_mutation |-> probs[2],
      elite_size |-> elite_size] :
        generations \in 1..MaxGenerations, k_tournament \in 1..(n + 1),
        probs \in ProbabilityPairs, elite_size \in 0..(n + 1)}

\* no function is being checked on its own
NoCall == [fn |-> "none", returned |-> FALSE]

\* main.py:105-137 and run_evolution lines 110-113
Init ==
    /\ \E n \in 1..MaxPop :
         /\ params \in ParameterSets(n)
         /\ \E population_gen0 \in [1..n -> InitialIndividuals] :
              current_population =
                  evaluate_population_fitness(population_gen0,
                      F1Scores(population_gen0), 0, params.generations)
    /\ pop_size = Len(current_population)
    /\ fitness_history = <<mean_fitness(current_population)>>
    /\ is_stuck = FALSE
    /\ g = 0
    /\ pc = "for"
    /\ new_population = << >>
    /\ new_children = << >>
    /\ tasks = << >>
    /\ call = NoCall
    /\ metrics_log = append_metrics_to_csv(FreshDirectory, 0,
                                           get_fitness_stats(current_population))
    /\ individuals_to_generate = << >>

\* lines 115-134: the head of one iteration of the for loop
StartGeneration ==
    /\ pc = "for"
    /\ g < params.generations
    /\ g' = g + 1
    /\ current_population' = SortDesc(current_population)
    /\ is_stuck' = check_stagnation(fitness_history, STAGNATION_LIMIT)
    /\ new_population' = Elites(current_population')
    /\ new_children' = << >>
    /\ pc' = "while"
    /\ UNCHANGED <<params, pop_size, fitness_history, tasks, call, metrics_log,
                   individuals_to_generate>>

\* lines 136-153: one batch of coroutines is built and handed to gather
LaunchBatch ==
    /\ pc = "while"
    /\ Len(new_children) < children_to_create
    /\ ~SampleRaises(ParentPool, params.k_tournament)
    /\ LET n_needed == children_to_create - Len(new_children)
           batch_size == BatchSize(n_needed)
           winners == Winners(ParentPool, params.k_tournament)
       IN  \E p1, p2 \in [1..batch_size -> winners] :
               tasks' = [i \in 1..batch_size |-> NewTask(p1[i], p2[i], is_stuck)]
    /\ pc' = "gather"
    /\ UNCHANGED <<params, pop_size, g, current_population, fitness_history, is_stuck,
                   new_population, new_children, call, metrics_log,
                   individuals_to_generate>>

\* lines 142-143: the first tournament_selection of the batch raises, before
\* any coroutine is created; nothing in run_evolution or main catches it
LaunchBatchRaises ==
    /\ pc = "while"
    /\ Len(new_children) < children_to_create
    /\ SampleRaises(ParentPool, params.k_tournament)
    /\ pc' = "raised"
    /\ UNCHANGED <<params, pop_size, g, current_population, fitness_history, is_stuck,
                   new_population, new_children, tasks, call, metrics_log,
                   individuals_to_generate>>

\* mutant: the child is an alias of parent1, whose prompt is overwritten
PipelineWritesParent ==
    /\ current_population' = [current_population EXCEPT ![1].prompt = "prompt1"]
    /\ UNCHANGED <<pc, params, pop_size, g, fitness_history, is_stuck,
                   new_population, new_children, call, metrics_log,
                   individuals_to_generate>>

\* what a step of a pipeline leaves alone: it reads its parents and writes
\* its own locals and the child it builds (lines 53, 61, 74-80, 87)
PipelineUnchanged ==
    UNCHANGED <<pc, params, pop_size, g, current_population, fitness_history, is_stuck,
                new_population, new_children, call, metrics_log,
                   individuals_to_generate>>

\* gather schedules the coroutines in order and the event loop runs the
\* first slice of each, in that order, before it polls for any answer
AllStarted == \A j \in DOMAIN tasks : tasks[j].stage # "start"

PipelineStart(i) ==
    /\ pc = "gather"
    /\ i \in DOMAIN tasks
    /\ tasks[i].stage = "start"
    /\ \A j \in 1..(i - 1) : tasks[j].stage # "start"
    /\ \E r_cross, r_mut, r_attr \in RandomDraws :
           tasks' = [tasks EXCEPT ![i] = PipelineStep1(tasks[i], r_cross, r_mut, r_attr)]
    /\ PipelineUnchanged

\* semantic_mutation's call_llm fails: the operator returns None
MutationFails(i) ==
    /\ pc = "gather"
    /\ i \in DOMAIN tasks
    /\ AllStarted
    /\ tasks[i].stage = "mutation"
    /\ tasks' = [tasks EXCEPT ![i] = PipelineAfterMutation(tasks[i], NONE)]
    /\ PipelineUnchanged

\* semantic_mutation's call_llm answers a MutationOutput
MutationAnswer(i) ==
    /\ pc = "gather"
    /\ i \in DOMAIN tasks
    /\ AllStarted
    /\ tasks[i].stage = "mutation"
    /\ \E response \in MutationResponses \ {NONE} :
           tasks' = [tasks EXCEPT ![i] = PipelineAfterMutation(tasks[i], response)]
    /\ PipelineUnchanged

RegenerateAnswer(i) ==
    /\ pc = "gather"
    /\ i \in DOMAIN tasks
    /\ AllStarted
    /\ tasks[i].stage = "regenerate"
    /\ \E new_prompt \in PromptResponses :
           tasks' = [tasks EXCEPT ![i] = PipelineAfterRegenerate(tasks[i], new_prompt)]
    /\ PipelineUnchanged

GenerateAnswer(i) ==
    /\ pc = "gather"
    /\ i \in DOMAIN tasks
    /\ AllStarted
    /\ tasks[i].stage = "generate"
    /\ \E new_data \in DataResponses :
           tasks' = [tasks EXCEPT ![i] = PipelineAfterGenerate(tasks[i], new_data)]
    /\ PipelineUnchanged

\* an exception raised inside a stage of the try block (lines 43-88), at the
\* await the coroutine is suspended in
PipelineFault(i) ==
    /\ pc = "gather"
    /\ i \in DOMAIN tasks
    /\ AllStarted
    /\ tasks[i].stage \in {"mutation", "regenerate", "generate"}
    /\ tasks' = [tasks EXCEPT ![i] = OnException(tasks[i])]
    /\ PipelineUnchanged

\* mutant: the results are collected in the reverse of the launch order
RECURSIVE SuccessfulChildrenReversed(_)
SuccessfulChildrenReversed(ts) ==
    IF ts = << >> THEN << >>
    ELSE SuccessfulChildrenReversed(Tail(ts)) \o Head(ts).child

\* the results of gather that are not None, in the order of the tasks
RECURSIVE SuccessfulChildren(_)
SuccessfulChildren(ts) ==
    IF ts = << >> THEN << >>
    ELSE Head(ts).child \o SuccessfulChildren(Tail(ts))

\* mutant: the engine goes on as soon as one coroutine has returned
GatherFirstCompleted(ts) == \E i \in DOMAIN ts : ts[i].stage = "done"

\* await asyncio.gather(*tasks) returns when every coroutine has returned
GatherDone(ts) == \A i \in DOMAIN ts : ts[i].stage = "done"

\* lines 153-157: gather returns when every coroutine has returned
JoinBatch ==
    /\ pc = "gather"
    /\ GatherDone(tasks)
    /\ new_children' = new_children \o SuccessfulChildren(tasks)
    /\ tasks' = << >>
    /\ pc' = "while"
    /\ UNCHANGED <<params, pop_size, g, current_population, fitness_history, is_stuck,
                   new_population, call, metrics_log,
                   individuals_to_generate>>

\* mutant: the children are evaluated with the index of the generation before
EvaluationIndexBefore == g - 1

\* line 164: generation=g
EvaluationIndex == g

\* lines 159-186: the children are evaluated in place and the generation ends
FinishGeneration ==
    /\ pc = "while"
    /\ ~(Len(new_children) < children_to_create)
    /\ LET evaluated_children ==
               evaluate_population_fitness(new_children, F1Scores(new_children),
                                           EvaluationIndex, params.generations)
       IN  /\ new_children' = evaluated_children
           /\ new_population' = new_population \o evaluated_children
    /\ current_population' = new_population'
    /\ fitness_history' = HistoryAfterGeneration(fitness_history, current_population')
    /\ pc' = "for"
    /\ metrics_log' = append_metrics_to_csv(metrics_log, g,
                                            get_fitness_stats(current_population'))
    /\ UNCHANGED <<params, pop_size, g, is_stuck, tasks, call, individuals_to_generate>>

\* lines 189-190: the loop is over and run_evolution returns to main
ReturnPopulation ==
    /\ pc = "for"
    /\ ~(g < params.generations)
    /\ pc' = "returned"
    /\ UNCHANGED <<params, pop_size, g, current_population, fitness_history, is_stuck,
                   new_population, new_children, tasks, call, metrics_log,
                   individuals_to_generate>>

\* main.py:143-153: the final consolidated evaluation, in place
FinalEvaluation ==
    /\ pc = "returned"
    /\ current_population' = FinalEvaluated(current_population)
    /\ pc' = "done"
    /\ UNCHANGED <<params, pop_size, g, fitness_history, is_stuck, new_population,
                   new_children, tasks, call, metrics_log,
                   individuals_to_generate>>

Next ==
    \/ StartGeneration
    \/ LaunchBatch
    \/ LaunchBatchRaises
    \/ \E i \in 1..CHILD_BATCH_SIZE : PipelineStart(i)
    \/ \E i \in 1..CHILD_BATCH_SIZE : MutationFails(i)
    \/ \E i \in 1..CHILD_BATCH_SIZE : MutationAnswer(i)
    \/ \E i \in 1..CHILD_BATCH_SIZE : RegenerateAnswer(i)
    \/ \E i \in 1..CHILD_BATCH_SIZE : GenerateAnswer(i)
    \/ \E i \in 1..CHILD_BATCH_SIZE : PipelineFault(i)
    \/ JoinBatch
    \/ FinishGeneration
    \/ ReturnPopulation
    \/ FinalEvaluation

Spec == Init /\ [][Next]_vars

-----------------------------------------------------------------------------
(* The fairness of a run: the event loop runs every ready coroutine and    *)
(* the engine goes on (weak fairness of each step); the random draws of a  *)
(* probability strictly between 0 and 1 fall on either side again and      *)
(* again, and the LLM service answers validly again and again (strong      *)
(* fairness of the favourable outcome of each stage).                      *)

\* the service behaved in generation 0: no empty topic
FairInit ==
    /\ Init
    /\ params.generations = 1
    /\ \A i \in DOMAIN current_population : Truthy(current_population[i].topic)

Fairness ==
    /\ WF_vars(Next)
    /\ SF_vars(\E i \in 1..CHILD_BATCH_SIZE :
                  PipelineStart(i) /\ tasks'[i].stage \in {"mutation", "regenerate"})
    /\ SF_vars(\E i \in 1..CHILD_BATCH_SIZE :
                  (MutationAnswer(i) \/ MutationFails(i))
                      /\ tasks'[i].stage = "regenerate")
    /\ SF_vars(\E i \in 1..CHILD_BATCH_SIZE :
                  RegenerateAnswer(i) /\ tasks'[i].stage = "generate")
    /\ SF_vars(\E i \in 1..CHILD_BATCH_SIZE :
                  GenerateAnswer(i) /\ tasks'[i].child # << >>)

FairSpec == FairInit /\ [][Next]_vars /\ Fairness

-----------------------------------------------------------------------------
(* ga/initial_population.py: create_initial_population.  population is kept *)
(* in current_population, n in pop_size, the batch in tasks.                *)

\* the largest n with the whole range of answers, and the largest n
MaxSmallInitial == 3
MaxInitial == 11

DEFAULT_BATCH_SIZE == 10

\* what infer_role returns: None, or the role field of the RoleOutput
RoleResponses == {NONE, "", "role0"}
\* what generate_topic_and_prompt returns: None, or the pair (topic, prompt)
\* of the SynthesisOutput, whose str fields may be empty
SynthesisResponses == {<<NONE>>, <<"topic0", "prompt0">>, <<"", "prompt0">>}

\* n, and the answers the LLM service gives during the run: every answer for
\* the small populations, valid answers only for a population larger than one
\* batch
BuilderParameterSets ==
    {[n |-> n, role_responses |-> RoleResponses,
      synthesis_responses |-> SynthesisResponses] : n \in 0..MaxSmallInitial}
    \cup
    {[n |-> MaxInitial, role_responses |-> {"role0"},
      synthesis_responses |-> {<<"topic0", "prompt0">>}]}

\* a coroutine _create_one_individual(...) not yet started
NewCreateTask == [stage |-> "start", role |-> NONE, child |-> << >>]

\* mutant: the loop is left one individual early
StillNeededButOne(population, n) == Len(population) < n - 1

\* line 74: while len(population) < n
StillNeeded(population, n) == Len(population) < n

\* line 79
InitialBatchSize(n_needed) == Min(n_needed, DEFAULT_BATCH_SIZE)

\* lines 30-32: the role infer_role returned
CreateAfterRole(task, role) ==
    IF ~Truthy(role) THEN [task EXCEPT !.stage = "done"]
    ELSE [task EXCEPT !.stage = "synthesis", !.role = role]

\* lines 41-54: a pair is truthy whatever its fields hold
CreateAfterSynthesis(task, topic_prompt_tuple) ==
    IF topic_prompt_tuple = <<NONE>>
    THEN [task EXCEPT !.stage = "done", !.role = NONE]
    ELSE [task EXCEPT !.stage = "done", !.role = NONE,
                      !.child = <<Individual(task.role, topic_prompt_tuple[1],
                                             topic_prompt_tuple[2], NO_DATA, 0)>>]

\* lines 70-71
BuilderInit ==
    /\ params \in BuilderParameterSets
    /\ pop_size = params.n
    /\ current_population = << >>
    /\ pc = "create_while"
    /\ tasks = << >>
    /\ g = 0
    /\ fitness_history = << >>
    /\ is_stuck = FALSE
    /\ new_population = << >>
    /\ new_children = << >>
    /\ call = NoCall
    /\ metrics_log = FreshDirectory
    /\ individuals_to_generate = << >>

BuilderUnchanged ==
    UNCHANGED <<pc, params, pop_size, g, current_population, fitness_history, is_stuck,
                new_population, new_children, call, metrics_log,
                   individuals_to_generate>>

\* lines 74-92: one batch of coroutines is built and handed to gather
CreateLaunchBatch ==
    /\ pc = "create_while"
    /\ StillNeeded(current_population, pop_size)
    /\ LET n_needed == pop_size - Len(current_population)
           batch_size == InitialBatchSize(n_needed)
       IN  tasks' = [i \in 1..batch_size |-> NewCreateTask]
    /\ pc' = "create_gather"
    /\ UNCHANGED <<params, pop_size, g, current_population, fitness_history, is_stuck,
                   new_population, new_children, call, metrics_log,
                   individuals_to_generate>>

\* lines 23-29: the first slice of the coroutine, up to the await of infer_role
CreateStart(i) ==
    /\ pc = "create_gather"
    /\ i \in DOMAIN tasks
    /\ tasks[i].stage = "start"
    /\ \A j \in 1..(i - 1) : tasks[j].stage # "start"
    /\ tasks' = [tasks EXCEPT ![i].stage = "role"]
    /\ BuilderUnchanged

InferRoleAnswer(i) ==
    /\ pc = "create_gather"
    /\ i \in DOMAIN tasks
    /\ AllStarted
    /\ tasks[i].stage = "role"
    /\ \E role \in params.role_responses :
           tasks' = [tasks EXCEPT ![i] = CreateAfterRole(tasks[i], role)]
    /\ BuilderUnchanged

SynthesisAnswer(i) ==
    /\ pc = "create_gather"
    /\ i \in DOMAIN tasks
    /\ AllStarted
    /\ tasks[i].stage = "synthesis"
    /\ \E topic_prompt_tuple \in params.synthesis_responses :
           tasks' = [tasks EXCEPT ![i] = CreateAfterSynthesis(tasks[i], topic_prompt_tuple)]
    /\ BuilderUnchanged

\* lines 92-101: gather returns, the results that are not None are kept
CreateJoinBatch ==
    /\ pc = "create_gather"
    /\ GatherDone(tasks)
    /\ current_population' = current_population \o SuccessfulChildren(tasks)
    /\ tasks' = << >>
    /\ pc' = "create_while"
    /\ UNCHANGED <<params, pop_size, g, fitness_history, is_stuck, new_population,
                   new_children, call, metrics_log,
                   individuals_to_generate>>

\* lines 74 and 108-109: the loop is over, the population is returned
CreateReturn ==
    /\ pc = "create_while"
    /\ ~StillNeeded(current_population, pop_size)
    /\ pc' = "created"
    /\ UNCHANGED <<params, pop_size, g, current_population, fitness_history, is_stuck,
                   new_population, new_children, tasks, call, metrics_log,
                   individuals_to_generate>>

BuilderNext ==
    \/ CreateLaunchBatch
    \/ \E i \in 1..DEFAULT_BATCH_SIZE : CreateStart(i)
    \/ \E i \in 1..DEFAULT_BATCH_SIZE : InferRoleAnswer(i)
    \/ \E i \in 1..DEFAULT_BATCH_SIZE : SynthesisAnswer(i)
    \/ CreateJoinBatch
    \/ CreateReturn

BuilderSpec == BuilderInit /\ [][BuilderNext]_vars

\* the builder and the engine, each from its start
ProgramSpec == (BuilderInit \/ Init) /\ [][BuilderNext \/ Next]_vars

-----------------------------------------------------------------------------
(* Functions checked on their own: Init draws the arguments of one call,   *)
(* the action applies the function.  The engine is idle.                   *)

MaxCallPop == 2
MaxTournamentPop == 3
MaxWords == 7

EngineIdle ==
    /\ pc = "idle"
    /\ params = [generations |-> 0, k_tournament |-> 0, prob_crossover |-> 0,
                 prob_mutation |-> 0, elite_size |-> 0]
    /\ pop_size = 0
    /\ g = 0
    /\ current_population = << >>
    /\ fitness_history = << >>
    /\ is_stuck = FALSE
    /\ new_population = << >>
    /\ new_children = << >>
    /\ tasks = << >>
    /\ metrics_log = FreshDirectory
    /\ individuals_to_generate = << >>

SeqsUpTo(S, n) == UNION {[1..m -> S] : m \in 0..n}

HistoryValues == {(5 * ONE) \div 10, (6 * ONE) \div 10, (7 * ONE) \div 10,
                  (8 * ONE) \div 10}
\* a window of 1 makes max() of line 40 fail on an empty list, a window of 0
\* makes line 35 take the whole history: the windows drawn start at 2
Windows == 2..MaxWindow

TournamentFitnesses == {0, (5 * ONE) \div 10, (6 * ONE) \div 10}

Scores == {0, (5 * ONE) \div 100, (50 * ONE) \div 100, (85 * ONE) \div 100, ONE}
CallTexts == {NO_DATA, EmptyText, TextPlain, TextLoop, TextSpam, TextZip}
\* the fitness the individuals carry into the call
CarriedFitnesses == {0, (9 * ONE) \div 10}
CallIndividuals(fitness) ==
    {Individual("role0", "topic0", "prompt0", d, fitness) : d \in CallTexts}

\* the arguments of the calls of _apply_penalties: the base score carried in
\* the fitness field, the text, and generation out of max_generations
PenaltyScores == {0, (5 * ONE) \div 100, (50 * ONE) \div 100, (80 * ONE) \div 100,
                  (85 * ONE) \div 100, (95 * ONE) \div 100, ONE}
PenaltyTexts == {NO_DATA, EmptyText, TextPlain, TextLoop, TextZip, TextBoth,
                 TextAbab, TextHalf, TextTwice}
PenaltyGenerationCounts == (1..MaxGenerations) \cup {10}

\* the individuals handed to semantic_mutation and what the service answers
\* (NONE: no MutationOutput), an answer equal to the old value included
MutationIndividuals ==
    {Individual(r, t, "", NO_DATA, 0) : r \in {"role0", "role1"},
                                        t \in {"topic0", "topic1"}}
MutationAnswers == MutationResponses \cup {"role0", "topic0"}

\* the texts and the n-gram windows of the calls of
\* calculate_internal_repetition; (4, 6) is the default window
RepetitionWords == {"la", "La", "x"}
RepetitionWindows == {<<4, 6>>, <<2, 3>>, <<1, 1>>}

FunctionInit ==
    /\ EngineIdle
    /\ \/ \E history \in SeqsUpTo(HistoryValues, MaxHistory), window \in Windows :
            call = [fn |-> "check_stagnation", returned |-> FALSE,
                    fitness_history |-> history, stagnation_limit |-> window,
                    result |-> FALSE]
       \/ \E n \in 1..MaxTournamentPop :
            \E fitnesses \in [1..n -> TournamentFitnesses], k \in 1..n :
               call = [fn |-> "tournament_selection", returned |-> FALSE,
                       fitnesses |-> fitnesses, k |-> k,
                       candidates |-> << >>, result |-> 0]
       \/ \E n \in 0..MaxCallPop, max_generations \in 1..MaxGenerations :
            \E fitness \in CarriedFitnesses :
            \E population \in [1..n -> CallIndividuals(fitness)],
               f1_scores \in [1..n -> Scores],
               generation \in 0..max_generations :
               call = [fn |-> "evaluate_population_fitness", returned |-> FALSE,
                       population |-> population, f1_scores |-> f1_scores,
                       generation |-> generation,
                       max_generations |-> max_generations,
                       result |-> << >>, twice |-> FALSE, again |-> << >>,
                       candidates |-> << >>, scored |-> FALSE]
       \/ \E base \in PenaltyScores, data \in PenaltyTexts,
             max_generations \in PenaltyGenerationCounts :
            \E generation \in 0..max_generations :
               call = [fn |-> "_apply_penalties", returned |-> FALSE,
                       individual |-> Individual("role0", "topic0", "prompt0",
                                                 data, base),
                       generation |-> generation,
                       max_generations |-> max_generations,
                       result |-> << >>]
       \/ \E text \in SeqsUpTo(RepetitionWords, MaxWords),
             window \in RepetitionWindows :
            call = [fn |-> "calculate_internal_repetition", returned |-> FALSE,
                    text |-> text, n_min |-> window[1], n_max |-> window[2],
                    result |-> 0]
       \/ \E individual \in MutationIndividuals, stuck \in BOOLEAN :
            call = [fn |-> "semantic_mutation", returned |-> FALSE,
                    individual |-> individual, is_stuck |-> stuck,
                    r_attr |-> 0, response |-> NONE, result |-> NONE]

CallCheckStagnation ==
    /\ call.fn = "check_stagnation"
    /\ ~call.returned
    /\ call' = [call EXCEPT !.returned = TRUE,
                   !.result = check_stagnation(call.fitness_history,
                                               call.stagnation_limit)]
    /\ UNCHANGED engine_vars

CallTournamentSelection ==
    /\ call.fn = "tournament_selection"
    /\ ~call.returned
    /\ \E candidates \in Samples(Len(call.fitnesses), call.k) :
           call' = [call EXCEPT !.returned = TRUE, !.candidates = candidates,
                       !.result = tournament_selection(call.fitnesses, candidates)]
    /\ UNCHANGED engine_vars

CallEvaluatePopulationFitness ==
    /\ call.fn = "evaluate_population_fitness"
    /\ ~call.returned
    /\ call' = [call EXCEPT !.returned = TRUE,
                   !.candidates = Candidates(call.population),
                   !.scored = ScorerInvoked(call.population),
                   !.result = evaluate_population_fitness(call.population,
                                  call.f1_scores, call.generation,
                                  call.max_generations)]
    /\ UNCHANGED engine_vars

CallSemanticMutation ==
    /\ call.fn = "semantic_mutation"
    /\ ~call.returned
    /\ \E r_attr \in RandomDraws, response \in MutationAnswers :
           call' = [call EXCEPT !.returned = TRUE, !.r_attr = r_attr,
                       !.response = response,
                       !.result = semantic_mutation(call.individual, call.is_stuck,
                                                    r_attr, response)]
    /\ UNCHANGED engine_vars

CallInternalRepetition ==
    /\ call.fn = "calculate_internal_repetition"
    /\ ~call.returned
    /\ call' = [call EXCEPT !.returned = TRUE,
                   !.result = calculate_internal_repetition(call.text, call.n_min,
                                                            call.n_max)]
    /\ UNCHANGED engine_vars

CallApplyPenalties ==
    /\ call.fn = "_apply_penalties"
    /\ ~call.returned
    /\ call' = [call EXCEPT !.returned = TRUE,
                   !.result = <<_apply_penalties(call.individual, call.generation,
                                                 call.max_generations)>>]
    /\ UNCHANGED engine_vars

\* the population the first call returned is evaluated again, with the same
\* reference text (so the same scores), generation and max_generations
CallEvaluatePopulationFitnessAgain ==
    /\ call.fn = "evaluate_population_fitness"
    /\ call.returned
    /\ ~call.twice
    /\ call' = [call EXCEPT !.twice = TRUE,
                   !.again = evaluate_population_fitness(call.result,
                                 call.f1_scores, call.generation,
                                 call.max_generations)]
    /\ UNCHANGED engine_vars

FunctionNext ==
    \/ CallCheckStagnation
    \/ CallTournamentSelection
    \/ CallEvaluatePopulationFitness
    \/ CallEvaluatePopulationFitnessAgain
    \/ CallApplyPenalties
    \/ CallSemanticMutation
    \/ CallInternalRepetition

FunctionSpec == FunctionInit /\ [][FunctionNext]_vars

-----------------------------------------------------------------------------
(* Claims about single functions, checked under FunctionSpec *)

EvaluateReturned == call.fn = "evaluate_population_fitness" /\ call.returned
StagnationReturned == call.fn = "check_stagnation" /\ call.returned
TournamentReturned == call.fn = "tournament_selection" /\ call.returned

\* C7: after any call of evaluate_population_fitness every individual of the
\* evaluated population has fitness >= 0.0, whatever the similarity score, the
\* generation index in 0..max_generations and the penalties applied.
C7_FitnessNeverNegative ==
    EvaluateReturned =>
        \A i \in DOMAIN call.result : call.result[i].fitness >= 0

\* C7 witness: a score of 0.05 on a low-diversity text at the last generation,
\* where the penalty (0.1) exceeds the score and the fitness is clamped to 0.
C7_Witness ==
    /\ EvaluateReturned
    /\ \E i \in DOMAIN call.result :
         /\ call.f1_scores[i] = (5 * ONE) \div 100
         /\ call.population[i].generated_data = TextLoop
         /\ call.generation = call.max_generations
         /\ call.result[i].fitness = 0

\* C8: check_stagnation(history, w) is true if and only if history has at
\* least w entries and the first of its last w entries is >= each of the
\* remaining w-1; [0.5, 0.6, 0.6, 0.6] with w = 3 gives true and
\* [0.5, 0.6, 0.7, 0.8] with w = 3 gives false.
C8_StagnationPredicate ==
    StagnationReturned =>
        LET h == call.fitness_history
            w == call.stagnation_limit
            n == Len(h)
            p5 == (5 * ONE) \div 10
            p6 == (6 * ONE) \div 10
            p7 == (7 * ONE) \div 10
            p8 == (8 * ONE) \div 10
        IN  /\ call.result <=>
                  (n >= w /\ \A j \in (n - w + 2)..n : h[n - w + 1] >= h[j])
            /\ (h = <<p5, p6, p6, p6>> /\ w = 3) => call.result = TRUE
            /\ (h = <<p5, p6, p7, p8>> /\ w = 3) => call.result = FALSE

\* C8 witness: the call on [0.5, 0.6, 0.6, 0.6] with window 3 has returned true.
C8_Witness ==
    /\ StagnationReturned
    /\ call.fitness_history = <<(5 * ONE) \div 10, (6 * ONE) \div 10,
                                (6 * ONE) \div 10, (6 * ONE) \div 10>>
    /\ call.stagnation_limit = 3
    /\ call.result = TRUE

\* C10: tournament_selection(population, k) with 1 <= k <= len(population)
\* returns a member of the population, one of the sampled candidates, whose
\* fitness is >= the fitness of every sampled candidate; with distinct
\* fitness values and k = len(population) it returns the global maximum.
C10_TournamentReturnsBestCandidate ==
    TournamentReturned =>
        LET f == call.fitnesses
            n == Len(f)
        IN  /\ call.result \in 1..n
            /\ call.result \in Range(call.candidates)
            /\ \A c \in Range(call.candidates) : f[call.result] >= f[c]
            /\ ((\A i, j \in 1..n : i # j => f[i] # f[j]) /\ call.k = n)
                   => \A j \in 1..n : j # call.result => f[call.result] > f[j]

\* C10 witness: three distinct fitness values, k = 3, and the winner is not
\* the first candidate drawn.
C10_Witness ==
    /\ TournamentReturned
    /\ Len(call.fitnesses) = 3
    /\ call.k = 3
    /\ \A i, j \in 1..3 : i # j => call.fitnesses[i] # call.fitnesses[j]
    /\ call.result # call.candidates[1]

-----------------------------------------------------------------------------
(* main.py: the data phase of generation 0, the two evaluations of main and *)
(* a run_evolution of no generation                                          *)

\* the prompts of the individuals of generation 0, one per position
GenerationZeroPrompts ==
    <<"prompt1", "prompt2", "prompt3", "prompt4", "prompt5", "prompt6",
      "prompt7", "prompt8", "prompt9", "prompt10", "prompt11", "prompt12">>

\* create_initial_population returns individuals without data or fitness
PopulationGen0(n) ==
    [i \in 1..n |-> Individual("role0", "topic0", GenerationZeroPrompts[i], NO_DATA, 0)]

\* what generate_data_for_individual returns for a prompt: None, the
\* stripped text (possibly empty).  In the run of MaxInitial individuals the
\* service fails for the first two prompts only.
DataAnswers(n, prompt) ==
    IF n <= MaxSmallInitial THEN {NO_DATA, EmptyText, TextPlain, TextLoop}
    ELSE IF prompt \in {"prompt1", "prompt2"} THEN {NO_DATA, TextPlain}
    ELSE {TextPlain}

MainParameterSets ==
    [generations : 0..1, k_tournament : {1}, prob_crossover : {0},
     prob_mutation : {0}, elite_size : {0}]

\* main.py:60-72
MainInit ==
    /\ pc = "data_while"
    /\ params \in MainParameterSets
    /\ \E n \in (1..MaxSmallInitial) \cup {MaxInitial} :
           current_population = PopulationGen0(n)
    /\ individuals_to_generate =
           [i \in 1..Len(current_population) |-> i]
    /\ tasks = << >>
    /\ pop_size = 0
    /\ g = 0
    /\ fitness_history = << >>
    /\ is_stuck = FALSE
    /\ new_population = << >>
    /\ new_children = << >>
    /\ call = NoCall
    /\ metrics_log = FreshDirectory

\* lines 75-86: the coroutines of the first batch_size individuals without
\* data are handed to gather; each reads the prompt of its individual
DataLaunchBatch ==
    /\ pc = "data_while"
    /\ individuals_to_generate # << >>
    /\ LET n_needed == Len(individuals_to_generate)
           batch_size == Min(n_needed, CHILD_BATCH_SIZE)
       IN  tasks' = [i \in 1..batch_size |->
                        [stage |-> "generate",
                         prompt |-> current_population[individuals_to_generate[i]].prompt,
                         data |-> NO_DATA]]
    /\ pc' = "data_gather"
    /\ UNCHANGED <<params, pop_size, g, current_population, fitness_history, is_stuck,
                   new_population, new_children, call, metrics_log,
                   individuals_to_generate>>

\* generate_data_agent.py:71-82: the answer of the service for one coroutine
DataAnswer(i) ==
    /\ pc = "data_gather"
    /\ i \in DOMAIN tasks
    /\ tasks[i].stage = "generate"
    /\ \E data \in DataAnswers(Len(current_population), tasks[i].prompt) :
           tasks' = [tasks EXCEPT ![i] = [@ EXCEPT !.stage = "done", !.data = data]]
    /\ UNCHANGED <<pc, params, pop_size, g, current_population, fitness_history,
                   is_stuck, new_population, new_children, call, metrics_log,
                   individuals_to_generate>>

\* mutant: the result of coroutine i is given to individual i of the population
AssignedIndividualOfPopulation(list, i) == i

\* line 93: the result of coroutine i is given to individuals_to_generate[i]
AssignedIndividual(list, i) == list[i]

\* line 91: if data
DataSucceeded(task) == task.data # NO_DATA /\ task.data # EmptyText

\* the elements of a list of positions that are not in a set, in order
RECURSIVE Without(_, _)
Without(list, removed) ==
    IF list = << >> THEN << >>
    ELSE IF Head(list) \in removed THEN Without(Tail(list), removed)
         ELSE <<Head(list)>> \o Without(Tail(list), removed)

\* lines 86-101: gather returns, the data are assigned and the list rebuilt
DataJoinBatch ==
    /\ pc = "data_gather"
    /\ \A i \in DOMAIN tasks : tasks[i].stage = "done"
    /\ LET successful_indices == {i \in DOMAIN tasks : DataSucceeded(tasks[i])}
           assigned == [i \in successful_indices |->
                           AssignedIndividual(individuals_to_generate, i)]
       IN  /\ current_population' =
                  [p \in DOMAIN current_population |->
                      IF \E i \in successful_indices : assigned[i] = p
                      THEN [current_population[p] EXCEPT !.generated_data =
                               tasks[CHOOSE i \in successful_indices :
                                         /\ assigned[i] = p
                                         /\ \A j \in successful_indices :
                                                assigned[j] = p => j <= i].data]
                      ELSE current_population[p]]
           /\ individuals_to_generate' =
                  Without(individuals_to_generate,
                          {individuals_to_generate[i] : i \in successful_indices})
    /\ tasks' = << >>
    /\ pc' = "data_while"
    /\ UNCHANGED <<params, pop_size, g, fitness_history, is_stuck, new_population,
                   new_children, call, metrics_log>>

\* line 75 is false: the data phase is over
DataPhaseEnds ==
    /\ pc = "data_while"
    /\ individuals_to_generate = << >>
    /\ pc' = "gen0_eval"
    /\ UNCHANGED <<params, pop_size, g, current_population, fitness_history, is_stuck,
                   new_population, new_children, tasks, call, metrics_log,
                   individuals_to_generate>>

\* lines 106-120: the evaluation of generation 0 and its metrics row
Gen0Evaluation ==
    /\ pc = "gen0_eval"
    /\ IF EvaluationRaises(current_population, 0, params.generations)
       THEN /\ current_population' =
                   EvaluationInterrupted(current_population,
                       F1Scores(current_population), 0, params.generations)
            /\ pc' = "main_raised"
            /\ UNCHANGED metrics_log
       ELSE /\ current_population' =
                   evaluate_population_fitness(current_population,
                       F1Scores(current_population), 0, params.generations)
            /\ metrics_log' = append_metrics_to_csv(metrics_log, 0,
                                  get_fitness_stats(current_population'))
            /\ pc' = "run_evolution"
    /\ UNCHANGED <<params, pop_size, g, fitness_history, is_stuck, new_population,
                   new_children, tasks, call, individuals_to_generate>>

\* evolution.py:110-115 and 190 with generations = 0: range(1, 1) is empty,
\* the population is returned as it came
RunEvolutionNoGeneration ==
    /\ pc = "run_evolution"
    /\ params.generations = 0
    /\ pop_size' = Len(current_population)
    /\ fitness_history' = <<mean_fitness(current_population)>>
    /\ is_stuck' = FALSE
    /\ pc' = "main_final"
    /\ UNCHANGED <<params, g, current_population, new_population, new_children,
                   tasks, call, metrics_log, individuals_to_generate>>

\* main.py:144-153: the final consolidated evaluation
MainFinalEvaluation ==
    /\ pc = "main_final"
    /\ IF EvaluationRaises(current_population, params.generations, params.generations)
       THEN /\ current_population' =
                   EvaluationInterrupted(current_population,
                       F1Scores(current_population), params.generations,
                       params.generations)
            /\ pc' = "main_raised"
       ELSE /\ current_population' =
                   evaluate_population_fitness(current_population,
                       F1Scores(current_population), params.generations,
                       params.generations)
            /\ pc' = "main_done"
    /\ UNCHANGED <<params, pop_size, g, fitness_history, is_stuck, new_population,
                   new_children, tasks, call, metrics_log, individuals_to_generate>>

MainNext ==
    \/ DataLaunchBatch
    \/ \E i \in 1..CHILD_BATCH_SIZE : DataAnswer(i)
    \/ DataJoinBatch
    \/ DataPhaseEnds
    \/ Gen0Evaluation
    \/ RunEvolutionNoGeneration
    \/ MainFinalEvaluation

MainSpec == MainInit /\ [][MainNext]_vars

-----------------------------------------------------------------------------
(* Claims about the engine, checked under Spec (C2 under FairSpec) *)

CountIn(list, x) == Cardinality({i \in DOMAIN list : list[i] = x})

\* C1: in every generation, for every elite_size >= 0 (also elite_size >=
\* population size), the population at the end of the generation has as many
\* individuals as at its start: elites kept + children collected = pop_size.
C1_PopulationSizeKept ==
    [][/\ (pc = "for" /\ pc' = "while") =>
              Len(current_population') = Len(current_population)
       /\ (pc = "while" /\ pc' = "for") =>
              /\ Len(current_population') = Len(current_population)
              /\ Len(current_population') = pop_size
              /\ Len(new_population) + Len(new_children) = pop_size]_vars

\* C1 witness: a generation of a population of 2 has ended with one elite
\* kept and one child collected.
C1_Witness ==
    /\ pc = "for"
    /\ g >= 1
    /\ pop_size = 2
    /\ params.elite_size = 1
    /\ Len(new_children) = 1
    /\ Len(current_population) = 2

\* C2 (as claimed): with a fair LLM service and fair random draws, for every
\* prob_crossover and prob_mutation in [0, 1], prob_crossover = 1.0 included,
\* each generation collects its children and run_evolution returns.
C2_EvolutionReturns == <>(pc = "returned")

\* C3 (as claimed): a pipeline that takes the crossover branch asks the LLM
\* service for the crossover and goes on with the (role, topic) it answers;
\* it does not end before the service was asked.
C3_CrossoverResultUsed ==
    [][\A i \in 1..CHILD_BATCH_SIZE :
          (PipelineStart(i) /\ tasks'[i].branch = "crossover")
              => tasks'[i].stage = "crossover"]_vars

\* C4 (as claimed): when the mutation branch is taken and the mutation
\* operator returns absent, the attempt fails: no child, no prompt
\* regeneration, no data generation.
C4_FailedMutationFailsAttempt ==
    [][\A i \in 1..CHILD_BATCH_SIZE :
          MutationFails(i)
              => (tasks'[i].stage = "done" /\ tasks'[i].child = << >>)]_vars

\* C5: in every generation the first slots of the new population hold the
\* elite_size highest-fitness individuals of the population at the start of
\* the generation, in descending fitness order and unchanged in every field;
\* the evaluated children follow them in the order collected.
C5_ElitesKeptUnchanged ==
    [][/\ (pc = "for" /\ pc' = "while") =>
              LET old == current_population
                  e == Min(params.elite_size, Len(old))
                  elites == new_population'
              IN  /\ Len(elites) = e
                  /\ \A i \in 1..(e - 1) : elites[i].fitness >= elites[i + 1].fitness
                  /\ \A x \in Range(elites) : CountIn(elites, x) <= CountIn(old, x)
                  /\ \A x \in Range(old) : \A y \in Range(elites) :
                         x.fitness > y.fitness => CountIn(elites, x) = CountIn(old, x)
       /\ (pc \in {"while", "gather"} /\ pc' # "for") =>
              new_population' = new_population
       /\ (pc = "while" /\ pc' = "for") =>
              LET e == Len(new_population)
              IN  /\ Len(current_population') = e + Len(new_children)
                  /\ SubSeq(current_population', 1, e) = new_population
                  /\ \A j \in DOMAIN new_children :
                         [current_population'[e + j] EXCEPT !.fitness = 0]
                             = [new_children[j] EXCEPT !.fitness = 0]]_vars

\* C5 witness: a generation has ended with the elite in the first slot
\* although the child behind it has the higher fitness.
C5_Witness ==
    /\ pc = "for"
    /\ g >= 1
    /\ pop_size = 2
    /\ params.elite_size = 1
    /\ Len(current_population) = 2
    /\ current_population[2].fitness > current_population[1].fitness

\* the fitness the evaluator gives a text at the last generation index
FitnessAtLastIndex(data) ==
    LET score == BertF1(TextOf(data))
        static == IF score > (8 * ONE) \div 10
                  THEN (score - (8 * ONE) \div 10) \div 2 ELSE 0
        dynamic == IF is_low_diversity(TextOf(data)) THEN ONE \div 10 ELSE 0
    IN  Max(0, score - static - dynamic)

\* C6 (as claimed): every individual of the population returned by
\* run_evolution, elites included, has a fitness computed with the generation
\* index equal to the total generation count.
C6_ReturnedPopulationReevaluated ==
    pc = "returned" =>
        \A i \in DOMAIN current_population :
            current_population[i].fitness
                = FitnessAtLastIndex(current_population[i].generated_data)

\* C6 (amended): main re-evaluates the population run_evolution returned;
\* every individual of the final population main ends with, elites included,
\* has a fitness computed with generation index = total generation count.
C6_FinalPopulationReevaluated ==
    pc = "done" =>
        \A i \in DOMAIN current_population :
            current_population[i].fitness
                = FitnessAtLastIndex(current_population[i].generated_data)

\* C6 witness: the run is over, the whole population was carried over as
\* elites since generation 0, and a low-diversity elite scored 0.6 now has
\* the fitness 0.5 of the last generation index.
C6_Witness ==
    /\ pc = "done"
    /\ params.elite_size >= pop_size
    /\ current_population[1].generated_data = TextLoop
    /\ current_population[1].fitness = (5 * ONE) \div 10

StagnantHistory(h) ==
    /\ Len(h) >= 3
    /\ h[Len(h) - 2] >= h[Len(h) - 1]
    /\ h[Len(h) - 2] >= h[Len(h)]

\* C9: the stagnation flag is computed once at the start of a generation from
\* the history of the completed generations; every pipeline launched in that
\* generation, in all its batches, receives that flag; a mutation uses the
\* explore instruction when it is true and the refine instruction when false.
C9_StagnationFlagOfGeneration ==
    pc \in {"while", "gather"} =>
        /\ Len(fitness_history) = g
        /\ is_stuck = StagnantHistory(fitness_history)
        /\ \A i \in DOMAIN tasks :
             /\ tasks[i].is_stuck = is_stuck
             /\ tasks[i].stage = "mutation" =>
                    tasks[i].system_prompt
                        = IF is_stuck THEN "explore" ELSE "refine"

\* C9 witness: a pipeline of a later batch of a stagnant generation is
\* waiting for a mutation asked with the explore instruction.
C9_Witness ==
    /\ pc = "gather"
    /\ is_stuck
    /\ Len(new_children) >= 1
    /\ \E i \in DOMAIN tasks :
         tasks[i].stage = "mutation" /\ tasks[i].system_prompt = "explore"

-----------------------------------------------------------------------------
(* Claims about the initial-population builder, checked under BuilderSpec *)

Creating == pc \in {"create_while", "create_gather", "created"}

NumberOfChildren(ts) == Cardinality({i \in DOMAIN ts : ts[i].child # << >>})

\* C11: create_initial_population(n, ...) returns exactly n individuals
\* whatever the failed attempts: the population under construction never
\* holds more than n individuals, a failed attempt adds nothing (a batch adds
\* one individual per successful attempt), and the loop is left only with n.
C11_InitialPopulationExact ==
    /\ [](Creating => Len(current_population) <= pop_size)
    /\ [](pc = "created" => Len(current_population) = pop_size)
    /\ [][(pc = "create_gather" /\ pc' = "create_while") =>
              /\ Len(current_population')
                     = Len(current_population) + NumberOfChildren(tasks)
              /\ SubSeq(current_population', 1, Len(current_population))
                     = current_population]_vars
    /\ [][(Creating /\ pc' = pc) => current_population' = current_population]_vars

\* C11 witness: a population of 2 holds one individual and the attempt of
\* the second batch has failed, so that a third batch is needed.
C11_Witness ==
    /\ pc = "create_gather"
    /\ pop_size = 2
    /\ Len(current_population) = 1
    /\ Len(tasks) = 1
    /\ tasks[1].stage = "done"
    /\ tasks[1].child = << >>

\* C12 (as claimed): every individual accepted into the initial population
\* or into a later population has a non-empty role and a non-empty topic,
\* whatever the str fields of the structured answers hold.
C12_AcceptedIndividualsHaveRoleAndTopic ==
    \A i \in DOMAIN current_population :
        Truthy(current_population[i].role) /\ Truthy(current_population[i].topic)

-----------------------------------------------------------------------------
(* Claims about the pipelines and the batches *)

Gathering == pc \in {"gather", "create_gather"}

\* the largest number of individuals still needed the batch sizes are
\* computed for
MaxNeeded == 12

\* C14: never more than 10 invocations are in flight, and results are
\* counted and a further batch is launched only when every invocation of the
\* current batch has completed, in the engine and in the builder.
C14_BatchesJoinAll ==
    /\ [](/\ Len(tasks) <= 10
          /\ ~Gathering => tasks = << >>
          /\ \A n_needed \in 1..MaxNeeded :
                 /\ BatchSize(n_needed) <= 10
                 /\ InitialBatchSize(n_needed) <= 10)
    /\ [][/\ (Gathering /\ pc' # pc) =>
                 \A i \in DOMAIN tasks : tasks[i].stage = "done"
          /\ (new_children' # new_children /\ pc = "gather") =>
                 \A i \in DOMAIN tasks : tasks[i].stage = "done"
          /\ (current_population' # current_population /\ pc = "create_gather") =>
                 \A i \in DOMAIN tasks : tasks[i].stage = "done"
          /\ (~Gathering /\ pc' \in {"gather", "create_gather"}) =>
                 /\ tasks = << >>
                 /\ \A i \in DOMAIN tasks' : tasks'[i].stage = "start"]_vars

\* C14 witness: the builder, asked for 11 individuals, has joined a batch of
\* 10 and has the batch of the one individual still needed in flight.
C14_Witness ==
    /\ pc = "create_gather"
    /\ pop_size = 11
    /\ Len(current_population) = 10
    /\ Len(tasks) = 1
    /\ tasks[1].stage = "role"

\* C13: a fault raised in a stage of _process_child_pipeline (the crossover
\* call, mutation, prompt regeneration, data generation) never leaves the
\* pipeline: the pipeline returns None, and the engine drops that attempt
\* and keeps the children already collected.
C13_FaultsAreDroppedAttempts ==
    /\ [](\A i \in DOMAIN tasks : tasks[i].stage # "raised")
    /\ [][\A i \in 1..CHILD_BATCH_SIZE :
              /\ PipelineFault(i) =>
                     /\ tasks'[i].stage = "done"
                     /\ tasks'[i].child = << >>
                     /\ new_children' = new_children
              /\ (PipelineStart(i) /\ tasks'[i].branch = "crossover"
                      /\ tasks'[i].stage # "crossover") =>
                     /\ tasks'[i].stage = "done"
                     /\ tasks'[i].child = << >>
                     /\ new_children' = new_children]_vars
    /\ [][(pc = "gather" /\ pc' = "while") =>
              /\ Len(new_children') = Len(new_children) + NumberOfChildren(tasks)
              /\ SubSeq(new_children', 1, Len(new_children)) = new_children]_vars

\* C13 witness: one child is collected and, in the next batch, the pipeline
\* whose crossover call raised has returned None.
C13_Witness ==
    /\ pc = "gather"
    /\ Len(new_children) = 1
    /\ \E i \in DOMAIN tasks :
         /\ tasks[i].branch = "crossover"
         /\ tasks[i].stage = "done"
         /\ tasks[i].child = << >>

\* the position, among the successful pipelines, of pipeline i of the batch
RankOfChild(ts, i) == Cardinality({j \in 1..i : ts[j].child # << >>})

\* C15: the children of a generation are in the order their pipelines were
\* launched, batch after batch and in launch order inside a batch, failed
\* attempts left out, whatever the order in which the pipelines completed.
C15_ChildrenInLaunchOrder ==
    [][/\ (pc = "gather" /\ pc' = "while") =>
              /\ Len(new_children') = Len(new_children) + NumberOfChildren(tasks)
              /\ SubSeq(new_children', 1, Len(new_children)) = new_children
              /\ \A i \in DOMAIN tasks :
                     tasks[i].child # << >> =>
                         new_children'[Len(new_children) + RankOfChild(tasks, i)]
                             = tasks[i].child[1]
       /\ (pc = "while" /\ pc' = "for") =>
              \A j \in DOMAIN new_children :
                  [current_population'[Len(new_population) + j] EXCEPT !.fitness = 0]
                      = [new_children[j] EXCEPT !.fitness = 0]]_vars

\* C15 witness: the second pipeline of a batch has returned its child while
\* the first, which will return a different child, is still waiting.
C15_Witness ==
    /\ pc = "gather"
    /\ Len(tasks) = 2
    /\ tasks[2].stage = "done"
    /\ tasks[2].child # << >>
    /\ tasks[1].stage = "generate"
    /\ tasks[1].child[1].role # tasks[2].child[1].role

\* C16: a step of a child pipeline, under any interleaving with the other
\* pipelines of its batch, changes nothing but that pipeline's own locals and
\* child: not the current population (its parents included), not the fitness
\* history, not the elites or the children collected, not another pipeline.
C16_PipelineWritesOnlyItsChild ==
    [][(pc = "gather" /\ pc' = "gather") =>
          /\ current_population' = current_population
          /\ fitness_history' = fitness_history
          /\ new_population' = new_population
          /\ new_children' = new_children
          /\ DOMAIN tasks' = DOMAIN tasks
          /\ \E i \in DOMAIN tasks :
                 \A j \in DOMAIN tasks : j # i => tasks'[j] = tasks[j]]_vars

\* C16 witness: a pipeline that copied its parent has mutated the role and
\* holds its new child, while another pipeline of the batch is under way and
\* the parent in the population still has its own role.
C16_Witness ==
    /\ pc = "gather"
    /\ Len(tasks) = 2
    /\ tasks[1].stage = "generate"
    /\ tasks[1].child[1].role = "mutated"
    /\ tasks[2].stage \in {"mutation", "regenerate", "generate"}
    /\ \A i \in DOMAIN current_population : current_population[i].role = "role0"

RECURSIVE IsSortedDesc(_)
IsSortedDesc(population) ==
    \/ Len(population) <= 1
    \/ /\ population[1].fitness >= population[2].fitness
       /\ IsSortedDesc(Tail(population))

\* the positions a tournament of size k over a population can return
TournamentWinners(population, k) ==
    {p \in DOMAIN population :
        \E s \in Samples(Len(population), k) :
            /\ p \in Range(s)
            /\ \A c \in Range(s) : population[p].fitness >= population[c].fitness}

\* C17: both parents of every attempt of generation g are tournament winners
\* over the population as it stood (sorted) at the start of generation g,
\* which stays as it is until the generation ends; a child collected earlier
\* in the generation is never a parent.
C17_ParentsFromCurrentPopulation ==
    /\ [](pc \in {"while", "gather"} =>
             /\ Len(current_population) = pop_size
             /\ IsSortedDesc(current_population)
             /\ \A i \in DOMAIN tasks :
                    tasks[i].stage = "start" =>
                        /\ tasks[i].p1 \in
                               TournamentWinners(current_population, params.k_tournament)
                        /\ tasks[i].p2 \in
                               TournamentWinners(current_population, params.k_tournament))
    /\ [][(pc \in {"while", "gather"} /\ pc' \in {"while", "gather"}) =>
              current_population' = current_population]_vars

\* C17 witness: one child of two is collected, so an attempt has failed,
\* and the attempt launched for the missing child has two different parents.
C17_Witness ==
    /\ pc = "gather"
    /\ params.elite_size = 0
    /\ pop_size = 2
    /\ Len(new_children) = 1
    /\ Len(tasks) = 1
    /\ tasks[1].stage = "start"
    /\ tasks[1].p1 # tasks[1].p2

\* C18: the fitness history starts as the single generation-0 mean, has
\* g + 1 entries after g completed generations, gets the mean fitness of the
\* population formed at the end of each generation appended, and no entry is
\* ever changed or removed.
C18_HistoryAppendOnly ==
    /\ (pc = "for" /\ g = 0) =>
           fitness_history = <<mean_fitness(current_population)>>
    /\ [](/\ pc \in {"for", "returned", "done"} => Len(fitness_history) = g + 1
          /\ pc \in {"while", "gather"} => Len(fitness_history) = g)
    /\ [][\/ fitness_history' = fitness_history
          \/ /\ pc = "while" /\ pc' = "for"
             /\ Len(fitness_history') = Len(fitness_history) + 1
             /\ SubSeq(fitness_history', 1, Len(fitness_history)) = fitness_history
             /\ fitness_history'[g + 1] = mean_fitness(current_population')]_vars

\* C18 witness: two generations are completed and the history holds three
\* entries, the latest different from the generation-0 mean.
C18_Witness ==
    /\ pc = "for"
    /\ g = 2
    /\ Len(fitness_history) = 3
    /\ fitness_history[3] # fitness_history[1]

-----------------------------------------------------------------------------
(* Further claims about evaluate_population_fitness, under FunctionSpec *)

EvaluatedTwice == call.fn = "evaluate_population_fitness" /\ call.twice

\* the fitness of a text with similarity score `score` at a generation index
ExpectedFitness(score, data, generation, max_generations) ==
    LET excess == IF score > (8 * ONE) \div 10
                  THEN (score - (8 * ONE) \div 10) \div 2 ELSE 0
        low == is_low_diversity(TextOf(data))
        dynamic == IF low THEN ((ONE \div 10) * generation) \div max_generations
                   ELSE 0
    IN  Max(0, score - excess - dynamic)

\* C19: with a deterministic scorer, evaluating a non-empty population a
\* second time with the same reference text, generation and max_generations
\* gives every individual the fitness the first evaluation gave it, whatever
\* fitness the individuals carried before.
C19_EvaluationIdempotent ==
    (EvaluatedTwice /\ Len(call.population) >= 1) =>
        /\ Len(call.again) = Len(call.result)
        /\ \A i \in DOMAIN call.result :
               /\ call.again[i].fitness = call.result[i].fitness
               /\ call.result[i].fitness
                      = ExpectedFitness(call.f1_scores[i],
                            call.population[i].generated_data,
                            call.generation, call.max_generations)

\* C19 witness: an individual carrying 0.9 and scored 0.85, with a
\* low-diversity text at a generation index >= 1, was evaluated twice and its
\* fitness is neither what it carried nor its score.
C19_Witness ==
    /\ EvaluatedTwice
    /\ call.generation >= 1
    /\ \E i \in DOMAIN call.population :
         /\ call.population[i].fitness = (9 * ONE) \div 10
         /\ call.f1_scores[i] = (85 * ONE) \div 100
         /\ call.population[i].generated_data = TextLoop
         /\ call.again[i].fitness < (85 * ONE) \div 100
         /\ call.again[i].fitness > 0

\* C20: evaluate_population_fitness returns the same individuals, as many
\* and in the same order, with role, topic, prompt and generated_data as
\* they were and the fitness of every member overwritten.
C20_OnlyFitnessChanges ==
    EvaluateReturned =>
        /\ Len(call.result) = Len(call.population)
        /\ \A i \in DOMAIN call.population :
               /\ call.result[i].role = call.population[i].role
               /\ call.result[i].topic = call.population[i].topic
               /\ call.result[i].prompt = call.population[i].prompt
               /\ call.result[i].generated_data = call.population[i].generated_data
               /\ call.result[i].fitness
                      = ExpectedFitness(call.f1_scores[i],
                            call.population[i].generated_data,
                            call.generation, call.max_generations)

\* C20 witness: a population of two with different texts, one of them
\* without generated data, both carrying 0.9, has been evaluated and both
\* have a new fitness.
C20_Witness ==
    /\ EvaluateReturned
    /\ Len(call.population) = 2
    /\ call.population[1].generated_data = NO_DATA
    /\ call.population[2].generated_data = TextPlain
    /\ call.population[1].fitness = (9 * ONE) \div 10
    /\ call.result[1].fitness # (9 * ONE) \div 10
    /\ call.result[2].fitness # (9 * ONE) \div 10

-----------------------------------------------------------------------------
(* Claims about _apply_penalties, under FunctionSpec *)

PenaltiesReturned == call.fn = "_apply_penalties" /\ call.returned

Tenths(n) == (n * ONE) \div 10
Hundredths(n) == (n * ONE) \div 100
Thousandths(n) == (n * ONE) \div 1000

\* the text of the call triggers the low-diversity penalty: compression
\* ratio strictly above 2.0 or repetition rate strictly above 0.5
LowDiversityCall ==
    LET text == IF call.individual.generated_data = NO_DATA THEN << >>
                ELSE call.individual.generated_data
    IN  \/ calculate_compression_ratio(text) > Tenths(20)
        \/ calculate_internal_repetition(text, 4, 6) > Tenths(5)

\* C21: for a text that does not trigger the low-diversity penalty the final
\* fitness is the score s when s <= 0.8 and s - (s - 0.8) * 0.5 when s > 0.8,
\* whatever generation and max_generations are; s = 0.95 gives 0.875.
C21_ExcessiveCoherencePenalty ==
    (PenaltiesReturned /\ ~LowDiversityCall) =>
        LET s == call.individual.fitness
            fitness == call.result[1].fitness
        IN  /\ s <= Tenths(8) => fitness = s
            /\ s > Tenths(8) => 2 * fitness = 2 * s - (s - Tenths(8))
            /\ s = Hundredths(95) => fitness = Thousandths(875)

\* C21 witness: the score 0.95 on a text of low redundancy, at the last
\* generation of 10, has given 0.875.
C21_Witness ==
    /\ PenaltiesReturned
    /\ call.individual.fitness = Hundredths(95)
    /\ call.individual.generated_data = TextPlain
    /\ call.generation = 10
    /\ call.max_generations = 10
    /\ call.result[1].fitness = Thousandths(875)

C23_AbsentDataIsEmptyText ==
    EvaluateReturned =>
        /\ Len(call.result) = Len(call.population)
        /\ \A i \in DOMAIN call.population :
               call.population[i].generated_data = NO_DATA =>
                   LET s == call.f1_scores[i]
                   IN  /\ call.candidates[i] = << >>
                       /\ calculate_compression_ratio(call.candidates[i]) = ONE
                       /\ calculate_internal_repetition(call.candidates[i], 4, 6) = 0
                       /\ s <= Tenths(8) => call.result[i].fitness = s
                       /\ s > Tenths(8) =>
                              2 * call.result[i].fitness = 2 * s - (s - Tenths(8))

\* C23 witness: an individual without generated data, scored 0.5 at the last
\* generation index, keeps 0.5, next to an individual with a text.
C23_Witness ==
    /\ EvaluateReturned
    /\ Len(call.population) = 2
    /\ call.population[1].generated_data = NO_DATA
    /\ call.population[2].generated_data = TextLoop
    /\ call.f1_scores[1] = Tenths(5)
    /\ call.generation = call.max_generations
    /\ call.result[1].fitness = Tenths(5)

-----------------------------------------------------------------------------
(* Claims about the agents and the diversity metrics, under FunctionSpec *)

MutationReturned == call.fn = "semantic_mutation" /\ call.returned

\* C25: when semantic_mutation succeeds it returns a (role, topic) pair in
\* which one attribute is the value the LLM service supplied and the other
\* is the input individual's; it never replaces both, and it returns absent
\* when the service gives no answer.
C25_MutationChangesOneAttribute ==
    MutationReturned =>
        /\ call.response = NONE => call.result = NONE
        /\ call.response # NONE =>
               /\ call.result # NONE
               /\ Len(call.result) = 2
               /\ \/ /\ call.result[1] = call.response
                     /\ call.result[2] = call.individual.topic
                  \/ /\ call.result[1] = call.individual.role
                     /\ call.result[2] = call.response
               /\ call.r_attr < 50 => call.result[2] = call.individual.topic
               /\ call.r_attr >= 50 => call.result[1] = call.individual.role

\* C25 witness: the topic of (role1, topic1) was mutated and the pair
\* returned holds the old role and the new topic.
C25_Witness ==
    /\ MutationReturned
    /\ call.individual.role = "role1"
    /\ call.individual.topic = "topic1"
    /\ call.response = "mutated"
    /\ call.result = <<"role1", "mutated">>

RepetitionReturned == call.fn = "calculate_internal_repetition" /\ call.returned

\* the places (n, i) of the n-grams of a text of `len` words over a window
NGramPlaces(len, n_min, n_max) ==
    {place \in (n_min..n_max) \X (1..len) : place[2] + place[1] - 1 <= len}

\* the n-gram of a text at a place, in lower case
NGramAt(text, place) ==
    [k \in 1..place[1] |-> LowerCase(text[place[2] + k - 1])]

\* C27: calculate_internal_repetition returns a value in [0, 1]: 0.0 for a
\* text with fewer words than the smallest n of the window, 0.0 when the
\* n-grams collected over the window are pairwise distinct, and otherwise
\* (total n-gram occurrences - distinct n-grams) / total occurrences, the
\* total summed over every n of the window.
C27_RepetitionRate ==
    RepetitionReturned =>
        LET places == NGramPlaces(Len(call.text), call.n_min, call.n_max)
            total == Cardinality(places)
            distinct == Cardinality({NGramAt(call.text, place) : place \in places})
        IN  /\ call.result >= 0
            /\ call.result <= ONE
            /\ Len(call.text) < call.n_min => call.result = 0
            /\ distinct = total => call.result = 0
            /\ total > 0 =>
                   /\ call.result * total <= (total - distinct) * ONE
                   /\ (total - distinct) * ONE < (call.result + 1) * total

\* C27 witness: the seven words "la La la La la La la" under the default
\* window give nine n-grams, three of them distinct once in lower case: the
\* rate is 2/3.
C27_Witness ==
    /\ RepetitionReturned
    /\ call.text = <<"la", "La", "la", "La", "la", "La", "la">>
    /\ call.n_min = 4
    /\ call.n_max = 6
    /\ call.result = (2 * ONE) \div 3

-----------------------------------------------------------------------------
(* The empty population *)

NoChildrenGeneration == params.elite_size = pop_size

\* C24: evaluate_population_fitness on an empty population does not invoke
\* the similarity scorer and returns the empty population, whatever the
\* generation index and the generation count; hence a generation whose
\* elite_size equals the population size launches no batch, evaluates an
\* empty list of children without the scorer, and ends with exactly the
\* individuals it started with (reordered by the sort of line 120 at most),
\* none of them changed.
C24_EmptyPopulationIsNoOp ==
    /\ [](\A G \in 1..MaxGenerations : \A g0 \in 0..G :
              evaluate_population_fitness(<< >>, << >>, g0, G) = << >>)
    /\ [][NoChildrenGeneration =>
             /\ (pc = "for" /\ pc' = "while") =>
                    /\ new_children' = << >>
                    /\ new_population' = current_population'
                    /\ \A x \in Range(current_population) \cup Range(current_population') :
                           CountIn(current_population', x) = CountIn(current_population, x)
             /\ pc = "while" =>
                    /\ pc' # "gather"
                    /\ new_children = << >>
                    /\ Candidates(new_children) = << >>
                    /\ ~ScorerInvoked(new_children)
             /\ (pc = "while" /\ pc' = "for") =>
                    /\ new_children' = << >>
                    /\ current_population' = current_population]_vars

\* a generation of two elites out of two individuals has ended: no child was
\* made and the two individuals, of different fitness, are still there
C24_Witness ==
    /\ pc = "for"
    /\ g >= 1
    /\ NoChildrenGeneration
    /\ pop_size = 2
    /\ new_children = << >>
    /\ Len(current_population) = 2
    /\ current_population[1].fitness > current_population[2].fitness

-----------------------------------------------------------------------------
(* The metrics log *)

\* the rows of the log below its header
DataRows == Tail(metrics_log.rows)

\* the cells of the row of a population, from the definitions of the
\* statistics
CellsOfPopulation(generation, population) ==
    LET scores == [i \in DOMAIN population |-> population[i].fitness]
        n == Len(scores)
        lowest == CHOOSE m \in Range(scores) : \A x \in Range(scores) : m <= x
        highest == CHOOSE m \in Range(scores) : \A x \in Range(scores) : m >= x
        mean == SumSeq(scores) \div n
        std == IF n = 1 THEN 0
               ELSE IF n = 2 THEN Abs(scores[1] - mean)
               ELSE pstdev(scores)
    IN  <<generation, n, Format6(mean), Format6(std), Format6(lowest),
          Format6(highest), DURATION>>

IsDataRow(row, generation, population) ==
    /\ row.kind = "data"
    /\ row.cells = CellsOfPopulation(generation, population)

\* C26: in a run of G generations that starts with no metrics log, the log
\* is one header line followed by one data row per finalized generation:
\* rows 0..g while generation g is finalized, rows 0..g-1 while generation g
\* is being made, hence rows 0..G, G + 1 of them, when run_evolution has
\* returned; a row is only ever appended, by the step that finalizes the
\* population of its generation, and it holds the count, mean, standard
\* deviation, minimum and maximum of the fitness of that population.
C26_MetricsLogRows ==
    /\ [](/\ metrics_log.exists
          /\ metrics_log.rows # << >>
          /\ Head(metrics_log.rows).kind = "header"
          /\ Head(metrics_log.rows).cells = CSV_HEADER
          /\ pc \in {"for", "returned", "done"} => Len(DataRows) = g + 1
          /\ pc \in {"while", "gather"} => Len(DataRows) = g
          /\ pc \in {"returned", "done"} => Len(DataRows) = params.generations + 1
          /\ \A i \in DOMAIN DataRows :
                 DataRows[i].kind = "data" /\ DataRows[i].cells[1] = i - 1
          /\ pc = "for" => IsDataRow(DataRows[g + 1], g, current_population))
    /\ [][\/ metrics_log' = metrics_log
          \/ /\ pc = "while" /\ pc' = "for"
             /\ Len(metrics_log'.rows) = Len(metrics_log.rows) + 1
             /\ \A i \in DOMAIN metrics_log.rows :
                    metrics_log'.rows[i] = metrics_log.rows[i]
             /\ IsDataRow(metrics_log'.rows[Len(metrics_log'.rows)], g,
                          current_population')]_vars

\* a run of two generations has returned: the log has its header and the
\* rows of generations 0, 1 and 2, and the population of generation 1 had
\* two different fitness values
C26_Witness ==
    /\ pc = "returned"
    /\ params.generations = 2
    /\ Len(metrics_log.rows) = 4
    /\ \A i \in 1..3 : DataRows[i].kind = "data" /\ DataRows[i].cells[1] = i - 1
    /\ DataRows[2].cells[2] = 2
    /\ DataRows[2].cells[5] < DataRows[2].cells[6]
    /\ DataRows[2].cells[4] > 0

-----------------------------------------------------------------------------
(* The child pipeline, stage by stage *)

\* the stages in their order: crossover or copy in the first slice, then the
\* optional mutation, prompt regeneration, data generation
StageOrder ==
    {<<"start", "crossover">>, <<"start", "mutation">>, <<"start", "regenerate">>,
     <<"start", "done">>, <<"crossover", "mutation">>, <<"crossover", "regenerate">>,
     <<"crossover", "done">>, <<"mutation", "regenerate">>, <<"mutation", "done">>,
     <<"regenerate", "generate">>, <<"regenerate", "done">>, <<"generate", "done">>}

\* pipeline i takes a step
PipelineSteps(i) ==
    /\ pc = "gather" /\ pc' = "gather"
    /\ i \in DOMAIN tasks
    /\ tasks'[i] # tasks[i]

\* the step of pipeline i follows the order of the stages
StepInOrder(i) ==
    PipelineSteps(i) => <<tasks[i].stage, tasks'[i].stage>> \in StageOrder

\* the stage pipeline i is in has failed: the service gave no usable answer
\* or the stage raised
StageFails(i) ==
    \/ MutationFails(i)
    \/ PipelineFault(i)
    \/ /\ PipelineSteps(i)
       /\ \/ /\ tasks[i].stage = "mutation"
             /\ tasks'[i] = PipelineAfterMutation(tasks[i], "")
          \/ /\ tasks[i].stage = "regenerate"
             /\ \E answer \in {NONE, ""} :
                    tasks'[i] = PipelineAfterRegenerate(tasks[i], answer)
          \/ /\ tasks[i].stage = "generate"
             /\ \E answer \in {NO_DATA, EmptyText} :
                    tasks'[i] = PipelineAfterGenerate(tasks[i], answer)

\* the child pipeline i has built once its prompt is regenerated, and the
\* child it returns
ChildOfStep(i) ==
    /\ (PipelineSteps(i) /\ tasks'[i].stage = "generate") =>
           /\ tasks[i].stage = "regenerate"
           /\ Len(tasks'[i].child) = 1
           /\ tasks'[i].child[1].role = tasks[i].new_role
           /\ tasks'[i].child[1].topic = tasks[i].new_topic
           /\ tasks'[i].child[1].prompt \in PromptResponses \ {NONE, ""}
           /\ tasks'[i].child[1].generated_data = NO_DATA
           /\ tasks'[i].child[1].fitness = 0
    /\ (PipelineSteps(i) /\ tasks'[i].stage = "done" /\ tasks'[i].child # << >>) =>
           /\ tasks[i].stage = "generate"
           /\ Len(tasks'[i].child) = 1
           /\ tasks'[i].child[1].role = tasks[i].child[1].role
           /\ tasks'[i].child[1].topic = tasks[i].child[1].topic
           /\ tasks'[i].child[1].prompt = tasks[i].child[1].prompt
           /\ Truthy(tasks'[i].child[1].role)
           /\ Truthy(tasks'[i].child[1].topic)
           /\ Truthy(tasks'[i].child[1].prompt)
           /\ tasks'[i].child[1].generated_data \in DataTexts
           /\ tasks'[i].child[1].generated_data # EmptyText
           /\ tasks'[i].child[1].fitness = 0

\* C28 (as claimed): the stages of a pipeline run in the order crossover or
\* copy, optional mutation, prompt regeneration, data generation; a stage
\* that fails ends the pipeline with no child and no later stage; a child
\* that is returned has the non-empty prompt regenerated from its final
\* (role, topic), non-empty data generated from that prompt, and fitness 0.
C28_PipelineStopsAtFirstFailure ==
    [][\A i \in 1..CHILD_BATCH_SIZE :
          /\ StepInOrder(i)
          /\ StageFails(i) => (tasks'[i].stage = "done" /\ tasks'[i].child = << >>)
          /\ ChildOfStep(i)]_vars

-----------------------------------------------------------------------------
(* Pure reproduction *)

\* pipeline i copied parent 1 and has asked for no mutation
PureReproduction(i) ==
    /\ pc = "gather"
    /\ i \in DOMAIN tasks
    /\ tasks[i].branch = "copy"
    /\ tasks[i].stage \in {"regenerate", "generate"}
    /\ tasks[i].calls \in {<< >>, <<"regenerate">>}

\* the first slice of pipeline i takes neither the crossover branch nor the
\* mutation branch
StartsPureReproduction(i) ==
    /\ pc = "gather"
    /\ i \in DOMAIN tasks
    /\ tasks[i].stage = "start"
    /\ tasks'[i].stage # "start"
    /\ tasks'[i].branch = "copy"
    /\ tasks'[i].stage # "mutation"

-----------------------------------------------------------------------------
(* Who is evaluated, and with which generation index *)

\* the fitness an evaluation with generation index h gives the individual
FitnessAtIndex(individual, h) ==
    ExpectedFitness(BertF1(TextOf(individual.generated_data)),
                    individual.generated_data, h, params.generations)

\* the fitness values of a list, as a bag
FitnessBag(list) ==
    [f \in {list[i].fitness : i \in DOMAIN list} |->
        Cardinality({i \in DOMAIN list : list[i].fitness = f})]

\* C30: the step that ends generation g gives every child made in
\* generation g the fitness of an evaluation with generation index g and
\* generation count G, and leaves every elite as it was, with the fitness of
\* the evaluation of the generation it was made in; no other step of
\* run_evolution changes a fitness: the children wait unevaluated (0.0) and
\* the population keeps its fitness values, so that no individual is
\* evaluated twice.
C30_ChildrenEvaluatedOnceAtTheirGeneration ==
    /\ [](/\ pc = "for" =>
                 \A i \in DOMAIN current_population :
                     \E h \in 0..g :
                         current_population[i].fitness
                             = FitnessAtIndex(current_population[i], h)
          /\ pc \in {"while", "gather"} =>
                 /\ \A j \in DOMAIN new_children : new_children[j].fitness = 0
                 /\ \A i \in DOMAIN tasks : \A j \in DOMAIN tasks[i].child :
                        tasks[i].child[j].fitness = 0)
    /\ [][/\ (pc = "while" /\ pc' = "for") =>
                 LET e == Len(new_population)
                 IN  /\ \A k \in 1..e : current_population'[k] = new_population[k]
                     /\ \A k \in 1..e : current_population'[k] = current_population[k]
                     /\ \A j \in DOMAIN new_children :
                            /\ current_population'[e + j].fitness
                                   = FitnessAtIndex(new_children[j], g)
                            /\ current_population'[e + j].generated_data
                                   = new_children[j].generated_data
          /\ (pc \in {"for", "while", "gather"} /\ ~(pc = "while" /\ pc' = "for")) =>
                 /\ \/ current_population' = current_population
                    \/ /\ pc = "for"
                       /\ FitnessBag(current_population') = FitnessBag(current_population)
                 /\ pc # "for" => new_population' = new_population]_vars

\* generation 2 of 3 has ended with an elite that keeps the fitness of
\* generation 1 and a child of repeated text penalised with index 2: the same
\* text, scored the same, has two different fitness values
C30_Witness ==
    /\ pc = "for"
    /\ g = 2
    /\ params.generations = 3
    /\ params.elite_size = 1
    /\ Len(current_population) = 2
    /\ current_population[1].generated_data = current_population[2].generated_data
    /\ current_population[1].fitness = FitnessAtIndex(current_population[1], 1)
    /\ current_population[2].fitness = FitnessAtIndex(current_population[2], 2)
    /\ current_population[1].fitness > current_population[2].fitness

-----------------------------------------------------------------------------
(* The best fitness, generation after generation *)

\* the highest fitness of a population
MaxFitness(population) ==
    CHOOSE m \in {population[i].fitness : i \in DOMAIN population} :
        \A i \in DOMAIN population : population[i].fitness <= m

\* C31: with elite_size >= 1 the highest fitness of the population does not
\* decrease over a generation of run_evolution, and the max_fitness cells of
\* the metrics log are in ascending order (equal allowed) from the row of
\* generation 0 on.
C31_MaxFitnessNeverDecreases ==
    /\ [](params.elite_size >= 1 =>
             \A i \in 1..(Len(DataRows) - 1) :
                 DataRows[i + 1].cells[6] >= DataRows[i].cells[6])
    /\ [][(params.elite_size >= 1 /\ pc \in {"for", "while", "gather"}) =>
             /\ MaxFitness(current_population') >= MaxFitness(current_population)
             /\ (pc = "while" /\ pc' = "for") =>
                    metrics_log'.rows[Len(metrics_log'.rows)].cells[6]
                        = Format6(MaxFitness(current_population'))]_vars

\* generation 2 has ended with one elite kept: the best fitness rose in
\* generation 1 and stayed in generation 2, whose child is worse than the
\* elite
C31_Witness ==
    /\ pc = "for"
    /\ g = 2
    /\ params.elite_size = 1
    /\ pop_size = 2
    /\ Len(DataRows) = 3
    /\ DataRows[2].cells[6] > DataRows[1].cells[6]
    /\ DataRows[3].cells[6] = DataRows[2].cells[6]
    /\ current_population[2].fitness < current_population[1].fitness

-----------------------------------------------------------------------------
(* The child-production loop *)

InChildLoop == pc \in {"while", "gather"}

\* C32 (as claimed): in the child-production loop the number of collected
\* children never exceeds pop_size - elite_size.
C32_ChildrenNeverExceedDifference ==
    InChildLoop => Len(new_children) <= pop_size - params.elite_size

\* C32 (amended): in the child-production loop the number of collected
\* children never exceeds pop_size - elite_size when elite_size <= pop_size,
\* and is 0, the loop body never running, when elite_size > pop_size; a
\* batch launches min(children still needed, 10) attempts, never more than
\* are still needed; every child a batch produces is collected; and the loop
\* is left with exactly max(0, pop_size - elite_size) children.
C32_ChildrenNeverExceedRequired ==
    /\ [](/\ InChildLoop => Len(new_children) <= Max(0, children_to_create)
          /\ pc = "gather" =>
                 /\ Len(tasks) = Min(children_to_create - Len(new_children),
                                     CHILD_BATCH_SIZE)
                 /\ Len(new_children) + Len(tasks) <= children_to_create
          /\ \A n_needed \in 1..MaxNeeded :
                 /\ BatchSize(n_needed) <= n_needed
                 /\ BatchSize(n_needed) = IF n_needed < 10 THEN n_needed ELSE 10)
    /\ [][/\ (pc = "gather" /\ pc' = "while") =>
                 /\ Len(new_children') = Len(new_children) + NumberOfChildren(tasks)
                 /\ SubSeq(new_children', 1, Len(new_children)) = new_children
          /\ (pc = "while" /\ pc' = "gather") => children_to_create > 0
          /\ (pc = "while" /\ pc' = "for") =>
                 /\ Len(new_children) = Max(0, children_to_create)
                 /\ Len(new_children') = Len(new_children)
                 /\ Len(current_population')
                        = Len(new_population) + Len(new_children)]_vars

\* of the two children needed one was collected from a first batch of two
\* attempts, and a second batch of the one attempt still needed is in flight
C32_Witness ==
    /\ pc = "gather"
    /\ pop_size = 2
    /\ params.elite_size = 0
    /\ Len(new_children) = 1
    /\ Len(tasks) = 1

-----------------------------------------------------------------------------
(* The stagnation flag, generation by generation *)

\* the mean fitness recorded for generation k
MeanOfGeneration(k) == fitness_history[k + 1]

\* C33: at the start of generation g the history holds the g means of
\* generations 0..g-1, the means of the rows of the metrics log; the flag of
\* generations 1 and 2 is false whatever these means are, and the flag of a
\* generation g >= 3 is true exactly when the mean of generation g-3 is
\* greater than or equal to the mean of generation g-2 and to the mean of
\* generation g-1.
C33_StagnationFlagByGeneration ==
    pc \in {"while", "gather"} =>
        /\ Len(fitness_history) = g
        /\ \A k \in 0..(g - 1) :
               DataRows[k + 1].cells[3] = Format6(MeanOfGeneration(k))
        /\ g \in {1, 2} => ~is_stuck
        /\ g >= 3 =>
               (is_stuck <=>
                    /\ MeanOfGeneration(g - 3) >= MeanOfGeneration(g - 2)
                    /\ MeanOfGeneration(g - 3) >= MeanOfGeneration(g - 1))

\* generation 3 runs with the flag set: the mean fell in generation 1 and
\* rose in generation 2 without passing the mean of generation 0
C33_Witness ==
    /\ pc = "while"
    /\ g = 3
    /\ is_stuck
    /\ MeanOfGeneration(0) > MeanOfGeneration(1)
    /\ MeanOfGeneration(1) < MeanOfGeneration(2)

-----------------------------------------------------------------------------
(* A tournament larger than the population *)

TournamentTooLarge == params.k_tournament > pop_size

\* C35 (as claimed): when k_tournament is larger than the population size
\* the run does not get past generation 1 and no metrics row is written for
\* that generation.
C35_TooLargeTournamentEndsGeneration1 ==
    TournamentTooLarge =>
        /\ g <= 1
        /\ Len(DataRows) <= 1
        /\ pc \notin {"returned", "done"}

\* C35 (amended): when k_tournament is larger than the population size and
\* at least one child is needed (elite_size < population size), the first
\* parent selection of generation 1 raises: run_evolution is left by the
\* error with no pipeline launched, no child collected and the row of
\* generation 0 the only row of the metrics log; the error is raised in no
\* other case, and with elite_size >= population size no parent is selected.
C35_TooLargeTournamentRaises ==
    /\ [](/\ pc = "raised" =>
                 /\ TournamentTooLarge
                 /\ params.elite_size < pop_size
                 /\ g = 1
                 /\ tasks = << >>
                 /\ new_children = << >>
                 /\ Len(DataRows) = 1
                 /\ DataRows[1].cells[1] = 0
          /\ (TournamentTooLarge /\ params.elite_size < pop_size) =>
                 /\ g <= 1
                 /\ pc \in {"for", "while", "raised"}
                 /\ tasks = << >>
          /\ (TournamentTooLarge /\ params.elite_size >= pop_size) =>
                 pc \notin {"gather", "raised"})
    /\ [][/\ (TournamentTooLarge /\ params.elite_size < pop_size /\ pc = "while") =>
                 pc' = "raised"
          /\ pc = "raised" => UNCHANGED vars]_vars

\* a tournament of 3 was asked of a population of 2 that needs a child: the
\* run has ended with the error in generation 1
C35_Witness ==
    /\ pc = "raised"
    /\ pop_size = 2
    /\ params.k_tournament = 3
    /\ params.elite_size = 1
    /\ g = 1

-----------------------------------------------------------------------------
(* The penalties and the ranking *)

\* the individual of the call has a low-diversity text
LowDiversityInCall(i) == is_low_diversity(TextOf(call.population[i].generated_data))

\* C36: of two individuals evaluated in one call (same generation, same
\* generation count) that are both of low diversity or both not, the one
\* with the higher similarity score has a final fitness greater than or
\* equal to the other's, and equal scores give equal fitness; no final
\* fitness exceeds the similarity score it was computed from.
C36_PenaltiesKeepRanking ==
    (EvaluateReturned /\ call.population # << >>) =>
        /\ \A i, j \in DOMAIN call.population :
               (LowDiversityInCall(i) = LowDiversityInCall(j)
                    /\ call.f1_scores[i] >= call.f1_scores[j])
                   => call.result[i].fitness >= call.result[j].fitness
        /\ \A i \in DOMAIN call.population :
               call.result[i].fitness <= call.f1_scores[i]

\* two individuals with the same repeated text, scored 0.85 and 1.0 at the
\* last generation: both are penalised twice and the order of their scores
\* is the order of their fitness
C36_Witness ==
    /\ EvaluateReturned
    /\ Len(call.population) = 2
    /\ call.generation = call.max_generations
    /\ call.population[1].generated_data = TextLoop
    /\ call.population[2].generated_data = TextLoop
    /\ LowDiversityInCall(1)
    /\ call.f1_scores = <<(85 * ONE) \div 100, ONE>>
    /\ call.result[1].fitness < call.result[2].fitness
    /\ call.result[2].fitness < ONE - Tenths(1)


-----------------------------------------------------------------------------
(* Claims about main, checked under MainSpec *)

\* main is between line 70 and line 106
InDataPhase == pc \in {"data_while", "data_gather", "gen0_eval"}

\* the positions of the individuals without data, in ascending order
RECURSIVE PositionsWithoutData(_, _)
PositionsWithoutData(population, from) ==
    IF from > Len(population) THEN << >>
    ELSE IF population[from].generated_data = NO_DATA
         THEN <<from>> \o PositionsWithoutData(population, from + 1)
         ELSE PositionsWithoutData(population, from + 1)

\* the position of the individual whose prompt a coroutine was given
IndividualOfTask(task) ==
    CHOOSE p \in DOMAIN current_population : current_population[p].prompt = task.prompt

\* C34: in the data phase of generation 0 the individuals still to generate
\* are exactly those without data, in the order of the population; an
\* individual holds either no data or a non-empty text, and when the loop
\* has exited every individual holds a non-empty text.  Every step of the
\* phase keeps the size of the population and the role, topic and prompt at
\* every position; a batch is launched only for individuals without data,
\* one coroutine each; when a batch is joined, each successful result is the
\* new data of the individual whose prompt produced it, the individual of a
\* failed coroutine stays without data, and every individual that had data
\* or was not in the batch is left as it was.
C34_DataPhaseRetriesInPlace ==
    /\ [](InDataPhase =>
            /\ individuals_to_generate = PositionsWithoutData(current_population, 1)
            /\ \A p \in DOMAIN current_population :
                   current_population[p].generated_data # EmptyText
            /\ pc = "gen0_eval" =>
                   \A p \in DOMAIN current_population :
                       current_population[p].generated_data \notin {NO_DATA, EmptyText})
    /\ [][InDataPhase =>
            /\ pc = "data_while" /\ individuals_to_generate # << >> => pc' = "data_gather"
            /\ pc' = "gen0_eval" => individuals_to_generate = << >>
            /\ Len(current_population') = Len(current_population)
            /\ \A p \in DOMAIN current_population :
                   /\ current_population'[p].role = current_population[p].role
                   /\ current_population'[p].topic = current_population[p].topic
                   /\ current_population'[p].prompt = current_population[p].prompt
                   /\ current_population[p].generated_data # NO_DATA =>
                          current_population'[p].generated_data =
                              current_population[p].generated_data
            /\ pc = "data_while" /\ pc' = "data_gather" =>
                   /\ tasks' # << >>
                   /\ \A i \in DOMAIN tasks' :
                          /\ \E p \in DOMAIN current_population :
                                 /\ current_population[p].prompt = tasks'[i].prompt
                                 /\ current_population[p].generated_data = NO_DATA
                          /\ \A j \in DOMAIN tasks' :
                                 tasks'[j].prompt = tasks'[i].prompt => j = i
            /\ pc = "data_gather" /\ pc' = "data_while" =>
                   /\ \A i \in DOMAIN tasks :
                          current_population'[IndividualOfTask(tasks[i])].generated_data =
                              IF DataSucceeded(tasks[i]) THEN tasks[i].data ELSE NO_DATA
                   /\ \A p \in DOMAIN current_population :
                          (\A i \in DOMAIN tasks : IndividualOfTask(tasks[i]) # p) =>
                              current_population'[p] = current_population[p]]_vars

\* a second batch has been joined: the individual at position 11 got its
\* data in a retry round whose coroutine for position 2 failed again, and
\* position 1, which failed in the first batch, got its data in the retry
C34_Witness ==
    /\ pc = "data_while"
    /\ Len(current_population) = MaxInitial
    /\ individuals_to_generate = <<2>>
    /\ current_population[1].generated_data = TextPlain
    /\ current_population[2].generated_data = NO_DATA
    /\ current_population[MaxInitial].generated_data = TextPlain
    /\ current_population[MaxInitial].prompt = GenerationZeroPrompts[MaxInitial]

\* C37 (as claimed): a run configured with zero generations completes for
\* every set of generated texts; neither the evaluation of generation 0 nor
\* the final evaluation ends with an error
C37_ZeroGenerationsCompletes ==
    params.generations = 0 => pc # "main_raised"

==========================================================================
